---- MODULE Spec2Model ----
(***************************************************************************)
(* Model of the Skybound data-card protocol engine of jdmtool              *)
(* (src/jdmtool/data_card.py, src/jdmtool/skybound.py): the Transport      *)
(* calls, the engine commands, the four bulk operations and the device     *)
(* session (open_programming_device / _open_usb_device).                   *)
(*                                                                         *)
(* Byte strings are kept run-length encoded: a sequence of <<byte, count>> *)
(* pairs with count > 0 and no two neighbouring pairs of the same byte, so *)
(* that a 4096-byte block is a short value and equality of encodings is    *)
(* equality of byte strings.                                               *)
(***************************************************************************)
EXTENDS Integers, Sequences, FiniteSets, TLC

\* ------------------------------------------------------------------------
\* Bounds of the model
\* ------------------------------------------------------------------------
MaxPages == 2        \* the pages argument of a bulk operation is 0..MaxPages
MaxCalls == 8        \* a Transport fault hits the n-th call of a step, n <= MaxCalls
MaxLayoutLen == 2    \* layouts of the engine-only specification have 1..MaxLayoutLen groups
MaxCrcLen == 2       \* checksummed messages have 0..MaxCrcLen bytes (and two fixed texts)

\* ------------------------------------------------------------------------
\* Python bytes, run-length encoded
\* ------------------------------------------------------------------------
\* b'\xNN' * n
Bytes(b, n) == IF n <= 0 THEN <<>> ELSE << <<b, n>> >>

\* x + y
Cat(x, y) ==
  IF x = <<>> THEN y
  ELSE IF y = <<>> THEN x
  ELSE IF x[Len(x)][1] = y[1][1]
       THEN SubSeq(x, 1, Len(x) - 1) \o << <<y[1][1], x[Len(x)][2] + y[1][2]>> >> \o Tail(y)
       ELSE x \o y

RECURSIVE Lit(_)
\* a bytes literal, given as the sequence of its byte values
Lit(s) == IF s = <<>> THEN <<>> ELSE Cat(Bytes(Head(s), 1), Lit(Tail(s)))

RECURSIVE BLen(_)
\* len(x)
BLen(x) == IF x = <<>> THEN 0 ELSE x[1][2] + BLen(Tail(x))

RECURSIVE Take(_, _)
\* x[:n]
Take(x, n) ==
  IF n <= 0 \/ x = <<>> THEN <<>>
  ELSE IF x[1][2] >= n THEN << <<x[1][1], n>> >>
  ELSE << x[1] >> \o Take(Tail(x), n - x[1][2])

RECURSIVE Drop(_, _)
\* x[n:]
Drop(x, n) ==
  IF n <= 0 \/ x = <<>> THEN x
  ELSE IF x[1][2] > n THEN << <<x[1][1], x[1][2] - n>> >> \o Tail(x)
  ELSE Drop(Tail(x), n - x[1][2])

\* x[0] and x[-1]; -1 stands for the IndexError of an empty string
First(x) == IF x = <<>> THEN -1 ELSE x[1][1]
Last(x) == IF x = <<>> THEN -1 ELSE x[Len(x)][1]

RECURSIVE ByteAt(_, _)
\* x[k] for 0 <= k < len(x)
ByteAt(x, k) == IF k < x[1][2] THEN x[1][1] ELSE ByteAt(Tail(x), k - x[1][2])

\* mutant: the padding is zero bytes, whatever the fill byte
Ljust_zero(x, width, fill) ==
  IF BLen(x) >= width THEN x ELSE Cat(x, Bytes(0, width - BLen(x)))

\* x.ljust(width, fill)
Ljust(x, width, fill) ==
  IF BLen(x) >= width THEN x ELSE Cat(x, Bytes(fill, width - BLen(x)))

\* int.from_bytes(x, 'little'), as the little-endian bytes of the integer
\* without its leading (most significant) zero bytes: two byte strings give
\* the same integer iff they give the same value here, whatever the width
IntFromLE(x) == IF x # <<>> /\ x[Len(x)][1] = 0 THEN SubSeq(x, 1, Len(x) - 1) ELSE x

\* page_id.to_bytes(2, 'little')
ToBytes2LE(v) == Cat(Bytes(v % 256, 1), Bytes(v \div 256, 1))

\* ------------------------------------------------------------------------
\* Program constants
\* ------------------------------------------------------------------------
BLOCK_SIZE == 4096
BLOCKS_PER_PAGE == 16
PAGE_SIZE == BLOCK_SIZE * BLOCKS_PER_PAGE
PAGES_PER_OFFSET == 32
\* mutant: the seventh group starts inside the fifth
MEMORY_OFFSETS_overlap == <<224, 736, 352, 864, 416, 928, 432, 960>>

MEMORY_OFFSETS == <<224, 736, 352, 864, 416, 928, 448, 960>>
MEMORY_LAYOUT_UNKNOWN == <<0>>
MEMORY_LAYOUT_4MB == <<0, 2>>
MEMORY_LAYOUT_16MB == <<0, 1, 2, 3, 4, 5, 6, 7>>
IID_16MB == Lit(<<0, 65, 0, 1>>)      \* 0x01004100
IID_4MB == Lit(<<0, 173, 0, 1>>)      \* 0x0100ad00
AllFF == Bytes(255, BLOCK_SIZE)

NoFault == "none"

\* the faults of the engine and of the session
Faults == {"TransportError", "UnexpectedResponse", "CardMissing", "CardDisappeared",
           "UnknownCard", "VerificationFailed", "ValueError", "IndexError",
           "CouldNotOpen", "USBError"}

\* ------------------------------------------------------------------------
\* Transport.  A step of the program threads a record r through its calls:
\*   r.t  the Transport calls issued so far (the trace)
\*   r.f  the fault raised so far (NoFault: still running)
\*   r.n  the number of Transport calls this step has issued
\*   r.k  the call of this step that the USB layer fails (0: none)
\*   r.v  the bytes returned by the last read
\*   r.ret the value returned by the last engine command
\* Once r.f is a fault every later call leaves r alone: the exception
\* unwinds through the rest of the function.
\* ------------------------------------------------------------------------
Run(t, k) == [t |-> t, f |-> NoFault, n |-> 0, k |-> k, v |-> <<>>, ret |-> <<>>]

raise(r, f) == IF r.f # NoFault THEN r ELSE [r EXCEPT !.f = f]

Call(r, entry, resp) ==
  IF r.f # NoFault THEN r
  ELSE LET ok == (r.n + 1 # r.k)
       IN [r EXCEPT !.n = r.n + 1,
                    !.t = Append(r.t, [entry EXCEPT !.ok = ok,
                                                    !.data = IF ok THEN entry.data ELSE <<>>]),
                    !.v = IF ok THEN resp ELSE <<>>,
                    !.f = IF ok THEN NoFault ELSE "TransportError"]

\* handle.bulkWrite(WRITE_ENDPOINT, data, TIMEOUT)
write(r, data) ==
  IF r.f # NoFault THEN r
  ELSE LET ok == (r.n + 1 # r.k)
       IN [r EXCEPT !.n = r.n + 1,
                    !.t = Append(r.t, [call |-> "write", req |-> <<>>, len |-> 0,
                                       data |-> data, ok |-> ok]),
                    !.f = IF ok THEN NoFault ELSE "TransportError"]

\* handle.bulkRead(READ_ENDPOINT, length, TIMEOUT); resp is what the device
\* answers, cut to the requested length
read(r, length, resp) ==
  Call(r, [call |-> "read", req |-> <<>>, len |-> length,
           data |-> Take(resp, length), ok |-> TRUE], Take(resp, length))

\* handle.controlRead(bRequestType, bRequest, wValue, wIndex, wLength, TIMEOUT)
control_read(r, bRequestType, bRequest, wValue, wIndex, wLength, resp) ==
  Call(r, [call |-> "control_read", req |-> <<bRequestType, bRequest, wValue, wIndex>>,
           len |-> wLength, data |-> Take(resp, wLength), ok |-> TRUE], Take(resp, wLength))

\* mutant: only the length of the answer is compared
validate_read_length_only(r, expected, actual) ==
  IF r.f # NoFault THEN r
  ELSE IF BLen(expected) # BLen(actual) THEN raise(r, "UnexpectedResponse") ELSE r

validate_read(r, expected, actual) ==
  IF r.f # NoFault THEN r
  ELSE IF expected # actual THEN raise(r, "UnexpectedResponse") ELSE r

control_get_device(r, length, resp) == control_read(r, 128, 6, 256, 0, length, resp)

control_get_configuration(r, length, resp) == control_read(r, 128, 6, 512, 0, length, resp)

\* the three descriptors SkyboundDevice.init expects
DEVICE_DESCRIPTOR == Lit(<<18, 1, 16, 1, 255, 131, 255, 64, 57, 14, 80, 18, 0, 0, 0, 0, 0, 1>>)
CONFIG_SHORT == Lit(<<9, 2, 32, 0, 1, 1, 0, 128, 15>>)
CONFIG_FULL == Lit(<<9, 2, 32, 0, 1, 1, 0, 128, 15, 9, 4, 0, 0, 2, 0, 0,
                     0, 0, 7, 5, 129, 2, 64, 0, 5, 7, 5, 2, 2, 64, 0, 5>>)

\* SkyboundDevice.init: d1, d2, d3 are the device's answers
init(r, d1, d2, d3) ==
  LET r1 == control_get_device(r, 18, d1)
      r2 == validate_read(r1, DEVICE_DESCRIPTOR, r1.v)
      r3 == control_get_configuration(r2, 9, d2)
      r4 == validate_read(r3, CONFIG_SHORT, r3.v)
      r5 == control_get_configuration(r4, 32, d3)
  IN validate_read(r5, CONFIG_FULL, r5.v)

\* ------------------------------------------------------------------------
\* Engine commands
\* ------------------------------------------------------------------------
LED_ON == Lit(<<18>>)
LED_OFF == Lit(<<19>>)
HAS_CARD == Lit(<<24>>)
READ_BLOCK == Lit(<<40>>)
WRITE_BLOCK == Lit(<<42, 4>>)
SELECT_PREFIX == Lit(<<48, 0, 0>>)
ERASE_PAGE == Lit(<<82, 4>>)
BEFORE_READ == Lit(<<64>>)
BEFORE_WRITE == Lit(<<66>>)
GET_IID == Lit(<<80, 4>>)
GET_UNKNOWN == Lit(<<80, 3>>)

\* mutant: the two LED commands are swapped
set_led_swapped(r, on) == IF on THEN write(r, LED_OFF) ELSE write(r, LED_ON)

set_led(r, on) == IF on THEN write(r, LED_ON) ELSE write(r, LED_OFF)

\* mutant: only the first byte of the answer is looked at
has_card_first_byte(r, resp) ==
  LET r2 == read(write(r, HAS_CARD), 64, resp)
  IN IF r2.f # NoFault THEN r2
     ELSE IF First(r2.v) = 0 THEN [r2 EXCEPT !.ret = TRUE]
     ELSE IF First(r2.v) = 1 THEN [r2 EXCEPT !.ret = FALSE]
     ELSE raise(r2, "UnexpectedResponse")

has_card(r, resp) ==
  LET r2 == read(write(r, HAS_CARD), 64, resp)
  IN IF r2.f # NoFault THEN r2
     ELSE IF r2.v = Lit(<<0>>) THEN [r2 EXCEPT !.ret = TRUE]
     ELSE IF r2.v = Lit(<<1>>) THEN [r2 EXCEPT !.ret = FALSE]
     ELSE raise(r2, "UnexpectedResponse")

\* mutant: the priming command of the write path is sent
before_read_sends_42(r) == write(r, BEFORE_WRITE)

before_read(r) == write(r, BEFORE_READ)

before_write(r) == write(r, BEFORE_WRITE)

select_physical_page(r, page_id) ==
  IF r.f # NoFault THEN r
  ELSE IF ~(0 <= page_id /\ page_id <= 65535) THEN raise(r, "ValueError")
  ELSE write(r, Cat(SELECT_PREFIX, ToBytes2LE(page_id)))

\* memory_layout[g] as Python indexes a list: g may be negative and then
\* counts from the end; 0 stands for the IndexError (TLA+ sequences start at 1)
ListIndex(layout, g) ==
  IF 0 <= g /\ g < Len(layout) THEN g + 1
  ELSE IF g < 0 /\ -Len(layout) <= g THEN Len(layout) + g + 1
  ELSE 0

\* mutant: the offset group is taken from the block-per-page quotient
translate_page_div16(layout, page_id) ==
  LET j == ListIndex(layout, page_id \div BLOCKS_PER_PAGE)
  IN IF j = 0 THEN -1
     ELSE MEMORY_OFFSETS[layout[j] + 1] + (page_id % PAGES_PER_OFFSET)

\* -1 stands for the IndexError
translate_page(layout, page_id) ==
  LET j == ListIndex(layout, page_id \div PAGES_PER_OFFSET)
  IN IF j = 0 THEN -1
     ELSE MEMORY_OFFSETS[layout[j] + 1] + (page_id % PAGES_PER_OFFSET)

select_page(r, layout, page_id) ==
  IF r.f # NoFault THEN r
  ELSE IF translate_page(layout, page_id) = -1 THEN raise(r, "IndexError")
  ELSE select_physical_page(r, translate_page(layout, page_id))

\* mutant: the size of one offset group, whatever the layout
get_total_pages_one_group(layout) == PAGES_PER_OFFSET

get_total_pages(layout) == Len(layout) * PAGES_PER_OFFSET

\* mutant: the block is read with the buffer length of the short answers
read_block_short(r, resp) == read(write(r, READ_BLOCK), 64, resp)

read_block(r, resp) == read(write(r, READ_BLOCK), BLOCK_SIZE, resp)

\* mutant: only data shorter than a block is rejected
write_block_short_only(r, data, resp) ==
  IF r.f # NoFault THEN r
  ELSE IF BLen(data) < BLOCK_SIZE THEN raise(r, "ValueError")
  ELSE LET r3 == read(write(write(r, WRITE_BLOCK), data), 64, resp)
       IN IF r3.f # NoFault THEN r3
          ELSE IF r3.v = <<>> THEN raise(r3, "IndexError")
          ELSE IF First(r3.v) # Last(data) \/ Drop(r3.v, 1) # Lit(<<0, 0, 0>>)
               THEN raise(r3, "UnexpectedResponse")
          ELSE r3

\* mutant: only the first four bytes of the answer are compared
write_block_ack_prefix(r, data, resp) ==
  IF r.f # NoFault THEN r
  ELSE IF BLen(data) # BLOCK_SIZE THEN raise(r, "ValueError")
  ELSE LET r3 == read(write(write(r, WRITE_BLOCK), data), 64, resp)
       IN IF r3.f # NoFault THEN r3
          ELSE IF r3.v = <<>> THEN raise(r3, "IndexError")
          ELSE IF First(r3.v) # Last(data) \/ Take(Drop(r3.v, 1), 3) # Lit(<<0, 0, 0>>)
               THEN raise(r3, "UnexpectedResponse")
          ELSE r3

write_block(r, data, resp) ==
  IF r.f # NoFault THEN r
  ELSE IF BLen(data) # BLOCK_SIZE THEN raise(r, "ValueError")
  ELSE LET r3 == read(write(write(r, WRITE_BLOCK), data), 64, resp)
       IN IF r3.f # NoFault THEN r3
          ELSE IF r3.v = <<>> THEN raise(r3, "IndexError")
          ELSE IF First(r3.v) # Last(data) \/ Drop(r3.v, 1) # Lit(<<0, 0, 0>>)
               THEN raise(r3, "UnexpectedResponse")
          ELSE r3

erase_page(r, resp) ==
  LET r2 == read(write(r, ERASE_PAGE), 64, resp)
  IN IF r2.f # NoFault THEN r2
     ELSE IF r2.v # Lit(<<4>>) THEN raise(r2, "UnexpectedResponse")
     ELSE r2

\* mutant: only the first four bytes of the answer make the integer
get_iid_first_four(r, layout, resp) ==
  LET r4 == read(write(before_read(select_page(r, layout, 0)), GET_IID), 64, resp)
  IN IF r4.f # NoFault THEN r4 ELSE [r4 EXCEPT !.ret = IntFromLE(Take(r4.v, 4))]

get_iid(r, layout, resp) ==
  LET r4 == read(write(before_read(select_page(r, layout, 0)), GET_IID), 64, resp)
  IN IF r4.f # NoFault THEN r4 ELSE [r4 EXCEPT !.ret = IntFromLE(r4.v)]

get_unknown(r, layout, resp) ==
  LET r4 == read(write(before_read(select_page(r, layout, 0)), GET_UNKNOWN), 64, resp)
  IN IF r4.f # NoFault THEN r4 ELSE [r4 EXCEPT !.ret = IntFromLE(r4.v)]

\* mutant: the answer of has_card is not looked at
init_data_card_any_answer(r, layout, hc, iid) ==
  LET r1 == has_card(r, hc)
      r3 == get_iid(before_read(select_page(r1, layout, 0)), layout, iid)
  IN IF r3.f # NoFault THEN [r3 EXCEPT !.ret = layout]
     ELSE IF r3.ret = IID_16MB THEN [r3 EXCEPT !.ret = MEMORY_LAYOUT_16MB]
     ELSE IF r3.ret = IID_4MB THEN [r3 EXCEPT !.ret = MEMORY_LAYOUT_4MB]
     ELSE [raise(r3, "UnknownCard") EXCEPT !.ret = layout]

\* mutant: an unrecognised IID leaves the default layout and raises nothing
init_data_card_unknown_ok(r, layout, hc, iid) ==
  LET r1 == has_card(r, hc)
      r2 == IF r1.f = NoFault /\ r1.ret = FALSE THEN raise(r1, "CardMissing") ELSE r1
      r3 == get_iid(before_read(select_page(r2, layout, 0)), layout, iid)
  IN IF r3.f # NoFault THEN [r3 EXCEPT !.ret = layout]
     ELSE IF r3.ret = IID_16MB THEN [r3 EXCEPT !.ret = MEMORY_LAYOUT_16MB]
     ELSE IF r3.ret = IID_4MB THEN [r3 EXCEPT !.ret = MEMORY_LAYOUT_4MB]
     ELSE [r3 EXCEPT !.ret = layout]

\* r.ret is the memory layout the engine holds afterwards
init_data_card(r, layout, hc, iid) ==
  LET r1 == has_card(r, hc)
      r2 == IF r1.f = NoFault /\ r1.ret = FALSE THEN raise(r1, "CardMissing") ELSE r1
      r3 == get_iid(before_read(select_page(r2, layout, 0)), layout, iid)
  IN IF r3.f # NoFault THEN [r3 EXCEPT !.ret = layout]
     ELSE IF r3.ret = IID_16MB THEN [r3 EXCEPT !.ret = MEMORY_LAYOUT_16MB]
     ELSE IF r3.ret = IID_4MB THEN [r3 EXCEPT !.ret = MEMORY_LAYOUT_4MB]
     ELSE [raise(r3, "UnknownCard") EXCEPT !.ret = layout]

\* mutant: the answer of has_card is not looked at
loop_helper_ignores_answer(r, i, hc) == has_card(set_led(r, i % 2 = 0), hc)

\* mutant: the LED toggle and the card check run at page boundaries only
loop_helper_per_page(r, i, hc) ==
  IF i % BLOCKS_PER_PAGE # 0 THEN r
  ELSE LET r2 == has_card(set_led(r, i % 2 = 0), hc)
       IN IF r2.f = NoFault /\ r2.ret = FALSE THEN raise(r2, "CardDisappeared") ELSE r2

loop_helper(r, i, hc) ==
  LET r2 == has_card(set_led(r, i % 2 = 0), hc)
  IN IF r2.f = NoFault /\ r2.ret = FALSE THEN raise(r2, "CardDisappeared") ELSE r2

\* ------------------------------------------------------------------------
\* What the device and the caller may supply
\* ------------------------------------------------------------------------
\* answers to has_card: present, absent, another byte, nothing, two bytes
HasCardResp == {Lit(<<0>>), Lit(<<1>>), Lit(<<2>>), <<>>, Lit(<<0, 0>>)}

\* the non-blank content of block i of the card
DataBlock(i) == Bytes(i % 255, BLOCK_SIZE)

\* answers to read_block number i of a bulk operation
ReadResp(i) == {DataBlock(i), AllFF}

\* answers to write_block(data): the echo the engine accepts, a wrong echo,
\* a wrong status, a longer answer, a full 64-byte answer, nothing
WriteResp(data) ==
  IF data = <<>> THEN {<<>>}
  ELSE {Cat(Bytes(Last(data), 1), Bytes(0, 3)),
        Cat(Bytes((Last(data) + 1) % 256, 1), Bytes(0, 3)),
        Cat(Bytes(Last(data), 1), Lit(<<0, 0, 1>>)),
        Cat(Bytes(Last(data), 1), Bytes(0, 4)),
        Cat(Bytes(Last(data), 1), Bytes(0, 63)),
        <<>>}

\* answers to erase_page
EraseResp == {Lit(<<4>>), Lit(<<0>>), <<>>, Lit(<<4, 0>>)}

\* answers to get_iid / get_unknown
IidResp == {Lit(<<0, 65, 0, 1>>), Lit(<<0, 173, 0, 1>>), Lit(<<0, 66, 0, 1>>),
            Cat(Lit(<<0, 65, 0, 1>>), Bytes(0, 60)), Lit(<<0, 65, 0, 1, 1>>), <<>>}

\* answers to the three control reads of the handshake
DescResp(expected) == {expected, Cat(expected, Bytes(0, 1)), Take(expected, BLen(expected) - 1),
                       Cat(Take(expected, BLen(expected) - 1), Bytes(254, 1))}

\* the source files handed to write_database and verify_database
Sources == {<<>>, Bytes(65, 100), Cat(Bytes(65, BLOCK_SIZE), Bytes(66, 10)),
            Bytes(67, BLOCK_SIZE * (BLOCKS_PER_PAGE + 1))}

\* the data handed to write_block by a direct caller
BlockArgs == {AllFF, Bytes(65, BLOCK_SIZE), Bytes(65, 100), <<>>, Bytes(65, BLOCK_SIZE + 1)}

\* ------------------------------------------------------------------------
\* State
\* ------------------------------------------------------------------------
VARIABLES
  pc,             \* position of the session: "closed", "opened", "identified",
                  \* "in_use" (the caller holds the engine), "bulk" (inside a bulk
                  \* operation), "closing", "releasing", "done"
  fault,          \* the exception unwinding through the session, or NoFault
  need_data_card, \* the argument of open_programming_device
  memory_layout,  \* SkyboundDevice.memory_layout
  trace,          \* the Transport calls issued since the current (or last) engine
                  \* operation began, teardown included
  log,            \* what happened to the USB handle and the session, in order
  op,             \* the current (or last) engine operation
  pages,          \* its pages argument
  i,              \* the loop index of the bulk operation
  fd,             \* the unread rest of the source file
  source,         \* the whole content of the source file handed to the operation
  out,            \* the blocks written to the output file
  progress,       \* the arguments of the progress callback, in order
  bodyLen,        \* Len(trace) when the caller's body ended, -1 before
  arg,            \* the argument of the last directly called engine command
  ret             \* the value the last engine command returned

vars == <<pc, fault, need_data_card, memory_layout, trace, log, op, pages, i, fd, source,
          out, progress, bodyLen, arg, ret>>

opVars == <<op, pages, i, fd, source, out, progress, arg, ret>>

Init ==
  /\ pc = "closed"
  /\ fault = NoFault
  /\ need_data_card \in BOOLEAN
  /\ memory_layout = MEMORY_LAYOUT_UNKNOWN
  /\ trace = <<>>
  /\ log = <<>>
  /\ op = "none"
  /\ pages = 0
  /\ i = 0
  /\ fd = <<>>
  /\ source = <<>>
  /\ out = <<>>
  /\ progress = <<>>
  /\ bodyLen = -1
  /\ arg = <<>>
  /\ ret = <<>>

\* ------------------------------------------------------------------------
\* Device session: open_programming_device and _open_usb_device
\* ------------------------------------------------------------------------
\* _open_usb_device up to its yield: open, claimInterface, resetDevice
open_usb_device_enter ==
  /\ pc = "closed"
  /\ \E outcome \in {"ok", "open", "claim", "reset"} :
       /\ log' = CASE outcome = "ok" -> <<"open", "claim", "reset">>
                   [] outcome = "open" -> <<>>
                   [] outcome = "claim" -> <<"open">>
                   [] outcome = "reset" -> <<"open", "claim", "release">>
       /\ fault' = CASE outcome = "ok" -> NoFault
                     [] outcome = "open" -> "CouldNotOpen"
                     [] OTHER -> "USBError"
       /\ pc' = IF outcome = "ok" THEN "opened" ELSE "done"
  /\ UNCHANGED <<need_data_card, memory_layout, trace, bodyLen>>
  /\ UNCHANGED opVars

\* dev = dev_cls(handle); dev.init()
dev_init ==
  /\ pc = "opened"
  /\ \E k \in 0..MaxCalls, d1 \in DescResp(DEVICE_DESCRIPTOR),
        d2 \in DescResp(CONFIG_SHORT), d3 \in DescResp(CONFIG_FULL) :
       LET r == init(Run(trace, k), d1, d2, d3)
       IN /\ trace' = r.t
          /\ fault' = r.f
          /\ pc' = IF r.f = NoFault THEN "identified" ELSE "releasing"
  /\ log' = Append(log, "init")
  /\ UNCHANGED <<need_data_card, memory_layout, bodyLen>>
  /\ UNCHANGED opVars

\* if need_data_card: dev.init_data_card(); then the yield
dev_init_data_card ==
  /\ pc = "identified"
  /\ need_data_card
  /\ \E k \in 0..MaxCalls, hc \in HasCardResp, iid \in IidResp :
       LET r == init_data_card(Run(trace, k), memory_layout, hc, iid)
       IN /\ trace' = r.t
          /\ fault' = r.f
          /\ memory_layout' = r.ret
          /\ pc' = IF r.f = NoFault THEN "in_use" ELSE "releasing"
          /\ log' = IF r.f = NoFault THEN log \o <<"card", "yield">> ELSE Append(log, "card")
  /\ UNCHANGED <<need_data_card, bodyLen>>
  /\ UNCHANGED opVars

\* need_data_card is False: the yield follows the handshake
skip_data_card ==
  /\ pc = "identified"
  /\ ~need_data_card
  /\ pc' = "in_use"
  /\ log' = Append(log, "yield")
  /\ UNCHANGED <<fault, need_data_card, memory_layout, trace, bodyLen>>
  /\ UNCHANGED opVars

\* the caller's body returns normally
body_return ==
  /\ pc = "in_use"
  /\ pc' = "closing"
  /\ bodyLen' = Len(trace)
  /\ UNCHANGED <<fault, need_data_card, memory_layout, trace, log>>
  /\ UNCHANGED opVars

\* mutant: the LED is switched off only when the body returned normally
dev_close_on_return_only ==
  /\ pc = "closing"
  /\ \E k \in 0..1 :
       LET r == IF fault = NoFault THEN set_led(Run(trace, k), FALSE) ELSE Run(trace, k)
       IN /\ trace' = r.t
          /\ fault' = IF r.f # NoFault THEN r.f ELSE fault
  /\ log' = IF fault = NoFault THEN Append(log, "led_off") ELSE log
  /\ pc' = "releasing"
  /\ UNCHANGED <<need_data_card, memory_layout, bodyLen>>
  /\ UNCHANGED opVars

\* finally: dev.close(), which is set_led(False)
dev_close ==
  /\ pc = "closing"
  /\ \E k \in 0..1 :
       LET r == set_led(Run(trace, k), FALSE)
       IN /\ trace' = r.t
          /\ fault' = IF r.f # NoFault THEN r.f ELSE fault
  /\ log' = Append(log, "led_off")
  /\ pc' = "releasing"
  /\ UNCHANGED <<need_data_card, memory_layout, bodyLen>>
  /\ UNCHANGED opVars

\* _open_usb_device after its yield: the with block releases the interface;
\* handle.close() follows the with block and runs only when no exception
\* passes through it
open_usb_device_exit ==
  /\ pc = "releasing"
  /\ log' = IF fault = NoFault THEN log \o <<"release", "close">> ELSE Append(log, "release")
  /\ pc' = "done"
  /\ UNCHANGED <<fault, need_data_card, memory_layout, trace, bodyLen>>
  /\ UNCHANGED opVars

\* ------------------------------------------------------------------------
\* Bulk operations.  Starting one is the call up to its loop; each *_iter
\* action is one pass of the loop; bulk_return is the loop running out.
\* A fault leaves the loop and the caller's body (the CLI does not catch it).
\* ------------------------------------------------------------------------
sessionVars == <<need_data_card, memory_layout, log>>

\* mutant: the page is re-selected every 256 blocks
page_boundary_256(n) == n % 256 = 0

\* if i % BLOCKS_PER_PAGE == 0: block i is the first of its page
page_boundary(n) == n % BLOCKS_PER_PAGE = 0

\* mutant: a block of zero bytes is taken for the blank block
is_blank_zero(block) == block = Bytes(0, BLOCK_SIZE)

\* if block == b'\xFF' * BLOCK_SIZE
is_blank(block) == block = AllFF

\* mutant: a fault is caught inside the operation, whose loop goes on
Outcome_swallows_fault(r, next) ==
  /\ trace' = r.t
  /\ fault' = NoFault
  /\ pc' = next
  /\ bodyLen' = bodyLen

\* the step ended in r: the exception leaves the body, or the step goes on
Outcome(r, next) ==
  /\ trace' = r.t
  /\ fault' = r.f
  /\ pc' = IF r.f # NoFault THEN "closing" ELSE next
  /\ bodyLen' = IF r.f # NoFault THEN Len(r.t) ELSE bodyLen

\* the number of passes of the loop of the current bulk operation
Limit == IF op = "erase_database" THEN pages ELSE pages * BLOCKS_PER_PAGE

start_read_database ==
  /\ pc = "in_use"
  /\ \E p \in 0..MaxPages, k \in 0..1 :
       /\ pages' = p
       /\ Outcome(before_read(Run(<<>>, k)), "bulk")
  /\ op' = "read_database"
  /\ i' = 0 /\ fd' = <<>> /\ source' = <<>> /\ out' = <<>> /\ progress' = <<>> /\ arg' = <<>> /\ ret' = <<>>
  /\ UNCHANGED sessionVars

read_database_iter ==
  /\ pc = "bulk" /\ op = "read_database" /\ i < Limit
  /\ \E k \in 0..MaxCalls, hc \in HasCardResp, blk \in ReadResp(i) :
       LET r1 == loop_helper(Run(trace, k), i, hc)
           r2 == IF page_boundary(i)
                 THEN select_page(r1, memory_layout, i \div BLOCKS_PER_PAGE) ELSE r1
           r3 == read_block(r2, blk)
           break == r3.f = NoFault /\ is_blank(r3.v)
           written == r3.f = NoFault /\ ~break
       IN /\ Outcome(r3, IF break THEN "in_use" ELSE "bulk")
          /\ out' = IF written THEN Append(out, r3.v) ELSE out
          /\ progress' = IF written THEN Append(progress, BLen(r3.v)) ELSE progress
          /\ i' = IF written THEN i + 1 ELSE i
  /\ UNCHANGED <<op, pages, fd, source, arg, ret>>
  /\ UNCHANGED sessionVars

\* mutant: the final page is found by popping the last group off the layout
start_erase_database_pops_layout ==
  /\ pc = "in_use"
  /\ \E p \in 0..MaxPages, k \in 0..MaxCalls, er \in EraseResp :
       /\ pages' = p
       /\ Outcome(erase_page(select_page(before_write(Run(<<>>, k)), memory_layout,
                                         get_total_pages(memory_layout) - 1), er), "bulk")
  /\ op' = "erase_database"
  /\ i' = 0 /\ fd' = <<>> /\ source' = <<>> /\ out' = <<>> /\ progress' = <<>> /\ arg' = <<>> /\ ret' = <<>>
  /\ memory_layout' = SubSeq(memory_layout, 1, Len(memory_layout) - 1)
  /\ UNCHANGED <<need_data_card, log>>

start_erase_database ==
  /\ pc = "in_use"
  /\ \E p \in 0..MaxPages, k \in 0..MaxCalls, er \in EraseResp :
       /\ pages' = p
       /\ Outcome(erase_page(select_page(before_write(Run(<<>>, k)), memory_layout,
                                         get_total_pages(memory_layout) - 1), er), "bulk")
  /\ op' = "erase_database"
  /\ i' = 0 /\ fd' = <<>> /\ source' = <<>> /\ out' = <<>> /\ progress' = <<>> /\ arg' = <<>> /\ ret' = <<>>
  /\ UNCHANGED sessionVars

\* mutant: an erased page is reported with the size of a block
erase_database_iter_block_progress ==
  /\ pc = "bulk" /\ op = "erase_database" /\ i < Limit
  /\ \E k \in 0..MaxCalls, hc \in HasCardResp, er \in EraseResp :
       LET r1 == loop_helper(Run(trace, k), i, hc)
           r3 == erase_page(select_page(r1, memory_layout, i), er)
       IN /\ Outcome(r3, "bulk")
          /\ progress' = IF r3.f = NoFault THEN Append(progress, BLOCK_SIZE) ELSE progress
          /\ i' = IF r3.f = NoFault THEN i + 1 ELSE i
  /\ UNCHANGED <<op, pages, fd, source, out, arg, ret>>
  /\ UNCHANGED sessionVars

erase_database_iter ==
  /\ pc = "bulk" /\ op = "erase_database" /\ i < Limit
  /\ \E k \in 0..MaxCalls, hc \in HasCardResp, er \in EraseResp :
       LET r1 == loop_helper(Run(trace, k), i, hc)
           r3 == erase_page(select_page(r1, memory_layout, i), er)
       IN /\ Outcome(r3, "bulk")
          /\ progress' = IF r3.f = NoFault THEN Append(progress, PAGE_SIZE) ELSE progress
          /\ i' = IF r3.f = NoFault THEN i + 1 ELSE i
  /\ UNCHANGED <<op, pages, fd, source, out, arg, ret>>
  /\ UNCHANGED sessionVars

start_write_database ==
  /\ pc = "in_use"
  /\ \E p \in 0..MaxPages, k \in 0..1, src \in Sources :
       /\ pages' = p
       /\ fd' = src
       /\ source' = src
       /\ Outcome(before_write(Run(<<>>, k)), "bulk")
  /\ op' = "write_database"
  /\ i' = 0 /\ out' = <<>> /\ progress' = <<>> /\ arg' = <<>> /\ ret' = <<>>
  /\ UNCHANGED sessionVars

write_database_iter ==
  /\ pc = "bulk" /\ op = "write_database" /\ i < Limit
  /\ LET block == Ljust(Take(fd, BLOCK_SIZE), BLOCK_SIZE, 255)
     IN \E k \in 0..MaxCalls, hc \in HasCardResp, ack \in WriteResp(block) :
          LET r1 == loop_helper(Run(trace, k), i, hc)
              r2 == IF page_boundary(i)
                    THEN select_page(r1, memory_layout, i \div BLOCKS_PER_PAGE) ELSE r1
              r3 == write_block(r2, block, ack)
          IN /\ Outcome(r3, "bulk")
             /\ progress' = IF r3.f = NoFault THEN Append(progress, BLen(block)) ELSE progress
             /\ i' = IF r3.f = NoFault THEN i + 1 ELSE i
  /\ fd' = Drop(fd, BLOCK_SIZE)
  /\ UNCHANGED <<op, pages, source, out, arg, ret>>
  /\ UNCHANGED sessionVars

start_verify_database ==
  /\ pc = "in_use"
  /\ \E p \in 0..MaxPages, k \in 0..1, src \in Sources :
       /\ pages' = p
       /\ fd' = src
       /\ source' = src
       /\ Outcome(before_read(Run(<<>>, k)), "bulk")
  /\ op' = "verify_database"
  /\ i' = 0 /\ out' = <<>> /\ progress' = <<>> /\ arg' = <<>> /\ ret' = <<>>
  /\ UNCHANGED sessionVars

\* mutant: the progress of a block is reported before it is compared
verify_database_iter_progress_first ==
  /\ pc = "bulk" /\ op = "verify_database" /\ i < Limit
  /\ LET file_block == Ljust(Take(fd, BLOCK_SIZE), BLOCK_SIZE, 255)
     IN \E k \in 0..MaxCalls, hc \in HasCardResp, blk \in ReadResp(i) \cup {file_block} :
          LET r1 == loop_helper(Run(trace, k), i, hc)
              r2 == IF page_boundary(i)
                    THEN select_page(r1, memory_layout, i \div BLOCKS_PER_PAGE) ELSE r1
              r3 == read_block(r2, blk)
              r4 == IF r3.f = NoFault /\ r3.v # file_block
                    THEN raise(r3, "VerificationFailed") ELSE r3
          IN /\ Outcome(r4, "bulk")
             /\ progress' = IF r3.f = NoFault THEN Append(progress, BLen(file_block))
                            ELSE progress
             /\ i' = IF r4.f = NoFault THEN i + 1 ELSE i
  /\ fd' = Drop(fd, BLOCK_SIZE)
  /\ UNCHANGED <<op, pages, source, out, arg, ret>>
  /\ UNCHANGED sessionVars

verify_database_iter ==
  /\ pc = "bulk" /\ op = "verify_database" /\ i < Limit
  /\ LET file_block == Ljust(Take(fd, BLOCK_SIZE), BLOCK_SIZE, 255)
     IN \E k \in 0..MaxCalls, hc \in HasCardResp, blk \in ReadResp(i) \cup {file_block} :
          LET r1 == loop_helper(Run(trace, k), i, hc)
              r2 == IF page_boundary(i)
                    THEN select_page(r1, memory_layout, i \div BLOCKS_PER_PAGE) ELSE r1
              r3 == read_block(r2, blk)
              r4 == IF r3.f = NoFault /\ r3.v # file_block
                    THEN raise(r3, "VerificationFailed") ELSE r3
          IN /\ Outcome(r4, "bulk")
             /\ progress' = IF r4.f = NoFault THEN Append(progress, BLen(file_block))
                            ELSE progress
             /\ i' = IF r4.f = NoFault THEN i + 1 ELSE i
  /\ fd' = Drop(fd, BLOCK_SIZE)
  /\ UNCHANGED <<op, pages, source, out, arg, ret>>
  /\ UNCHANGED sessionVars

\* range(...) is exhausted: the bulk operation returns to the caller
bulk_return ==
  /\ pc = "bulk" /\ i = Limit
  /\ pc' = "in_use"
  /\ UNCHANGED <<fault, trace, bodyLen>>
  /\ UNCHANGED opVars
  /\ UNCHANGED sessionVars

\* ------------------------------------------------------------------------
\* Engine commands called directly by the holder of the engine
\* ------------------------------------------------------------------------
\* the command ended in r and returned value (<<>>: nothing)
Command(name, a, r, value) ==
  /\ Outcome(r, "in_use")
  /\ op' = name
  /\ arg' = a
  /\ ret' = IF r.f = NoFault THEN value ELSE <<>>
  /\ pages' = 0 /\ i' = 0 /\ fd' = <<>> /\ source' = <<>> /\ out' = <<>> /\ progress' = <<>>
  /\ UNCHANGED sessionVars

call_has_card ==
  /\ pc = "in_use"
  /\ \E k \in 0..2, hc \in HasCardResp :
       LET r == has_card(Run(<<>>, k), hc) IN Command("has_card", <<>>, r, <<"bool", r.ret>>)

call_set_led ==
  /\ pc = "in_use"
  /\ \E k \in 0..1, on \in BOOLEAN :
       Command("set_led", <<"bool", on>>, set_led(Run(<<>>, k), on), <<>>)

\* the page_id arguments tried: all of the card and one group on either side
PageArgs(layout) == (0 - get_total_pages(layout) - PAGES_PER_OFFSET)
                      .. (get_total_pages(layout) + PAGES_PER_OFFSET)

call_select_page ==
  /\ pc = "in_use"
  /\ \E k \in 0..1, p \in PageArgs(memory_layout) :
       Command("select_page", <<"int", p>>, select_page(Run(<<>>, k), memory_layout, p), <<>>)

\* translate_page called on its own: no Transport call
call_translate_page ==
  /\ pc = "in_use"
  /\ \E p \in PageArgs(memory_layout) :
       LET v == translate_page(memory_layout, p)
       IN Command("translate_page", <<"int", p>>,
                  IF v = -1 THEN raise(Run(<<>>, 0), "IndexError") ELSE Run(<<>>, 0),
                  <<"int", v>>)

call_read_block ==
  /\ pc = "in_use"
  /\ \E k \in 0..2, blk \in ReadResp(0) :
       LET r == read_block(Run(<<>>, k), blk) IN Command("read_block", <<>>, r, <<"bytes", r.v>>)

call_write_block ==
  /\ pc = "in_use"
  /\ \E k \in 0..3, data \in BlockArgs :
       \E ack \in WriteResp(data) :
         Command("write_block", <<"bytes", data>>, write_block(Run(<<>>, k), data, ack), <<>>)

call_erase_page ==
  /\ pc = "in_use"
  /\ \E k \in 0..2, er \in EraseResp :
       Command("erase_page", <<>>, erase_page(Run(<<>>, k), er), <<>>)

call_get_iid ==
  /\ pc = "in_use"
  /\ \E k \in 0..4, iid \in IidResp :
       LET r == get_iid(Run(<<>>, k), memory_layout, iid)
       IN Command("get_iid", <<>>, r, <<"int", r.ret>>)

call_get_unknown ==
  /\ pc = "in_use"
  /\ \E k \in 0..4, iid \in IidResp :
       LET r == get_unknown(Run(<<>>, k), memory_layout, iid)
       IN Command("get_unknown", <<>>, r, <<"int", r.ret>>)

\* ------------------------------------------------------------------------
\* Specifications
\* ------------------------------------------------------------------------
\* a whole device session, from open_programming_device to its exit
Next ==
  \/ open_usb_device_enter
  \/ dev_init
  \/ dev_init_data_card
  \/ skip_data_card
  \/ start_read_database
  \/ read_database_iter
  \/ start_erase_database
  \/ erase_database_iter
  \/ start_write_database
  \/ write_database_iter
  \/ start_verify_database
  \/ verify_database_iter
  \/ bulk_return
  \/ call_has_card
  \/ call_set_led
  \/ call_select_page
  \/ call_translate_page
  \/ call_read_block
  \/ call_write_block
  \/ call_erase_page
  \/ call_get_iid
  \/ call_get_unknown
  \/ body_return
  \/ dev_close
  \/ open_usb_device_exit

Spec == Init /\ [][Next]_vars

\* the engine in the caller's hands, as open_programming_device yields it
\* (the default layout when no data card was asked for, else the layout of
\* the detected card), and the bulk operations the caller runs on it
InitBulk ==
  /\ pc = "in_use"
  /\ fault = NoFault
  /\ memory_layout \in {MEMORY_LAYOUT_UNKNOWN, MEMORY_LAYOUT_4MB, MEMORY_LAYOUT_16MB}
  /\ need_data_card = (memory_layout # MEMORY_LAYOUT_UNKNOWN)
  /\ trace = <<>>
  /\ log = IF need_data_card THEN <<"open", "claim", "reset", "init", "card", "yield">>
           ELSE <<"open", "claim", "reset", "init", "yield">>
  /\ op = "none"
  /\ pages = 0
  /\ i = 0
  /\ fd = <<>>
  /\ source = <<>>
  /\ out = <<>>
  /\ progress = <<>>
  /\ bodyLen = -1
  /\ arg = <<>>
  /\ ret = <<>>

NextBulk ==
  \/ start_read_database
  \/ read_database_iter
  \/ start_erase_database
  \/ erase_database_iter
  \/ start_write_database
  \/ write_database_iter
  \/ start_verify_database
  \/ verify_database_iter
  \/ bulk_return

SpecBulk == InitBulk /\ [][NextBulk]_vars

\* the engine alone, built on an open handle and given any memory layout by
\* set_memory_layout, with one command called on it: the commands keep no
\* state but the layout, so one call from every layout covers every call
Layouts == UNION {[1..n -> 0..7] : n \in 1..MaxLayoutLen}

InitEngine ==
  /\ pc = "in_use"
  /\ fault = NoFault
  /\ need_data_card = FALSE
  /\ memory_layout \in Layouts
  /\ trace = <<>>
  /\ log = <<>>
  /\ op = "none"
  /\ pages = 0
  /\ i = 0
  /\ fd = <<>>
  /\ source = <<>>
  /\ out = <<>>
  /\ progress = <<>>
  /\ bodyLen = -1
  /\ arg = <<>>
  /\ ret = <<>>

\* no command has been called on this engine yet
Fresh == op = "none"

NextEngine ==
  \/ Fresh /\ call_has_card
  \/ Fresh /\ call_set_led
  \/ Fresh /\ call_select_page
  \/ Fresh /\ call_translate_page
  \/ Fresh /\ call_read_block
  \/ Fresh /\ call_write_block
  \/ Fresh /\ call_erase_page
  \/ Fresh /\ call_get_iid
  \/ Fresh /\ call_get_unknown

SpecEngine == InitEngine /\ [][NextEngine]_vars

\* ------------------------------------------------------------------------
\* Reading the trace
\* ------------------------------------------------------------------------
BulkOps == {"read_database", "write_database", "verify_database", "erase_database"}

BlockOps == {"read_database", "write_database", "verify_database"}

IsWrite(e, d) == e.call = "write" /\ e.data = d

IsLed(e) == IsWrite(e, LED_ON) \/ IsWrite(e, LED_OFF)

IsPriming(e) == IsWrite(e, BEFORE_READ) \/ IsWrite(e, BEFORE_WRITE)

IsSelect(e) == e.call = "write" /\ BLen(e.data) = 5 /\ Take(e.data, 3) = SELECT_PREFIX

\* a read_block, write_block or erase_page command
IsBlockCmd(e) == IsWrite(e, READ_BLOCK) \/ IsWrite(e, WRITE_BLOCK) \/ IsWrite(e, ERASE_PAGE)

\* trace[j] is the answer d to a has_card query
AnsweredAt(j, d) ==
  /\ j > 1
  /\ IsWrite(trace[j - 1], HAS_CARD)
  /\ trace[j].call = "read" /\ trace[j].ok /\ trace[j].data = d

Present == Lit(<<0>>)
Absent == Lit(<<1>>)

\* the part of the trace that belongs to the caller's body
OpLen == IF bodyLen = -1 THEN Len(trace) ELSE bodyLen

\* the positions of the select-page commands, of the block commands, and of
\* the commands that start a new stretch (block and priming commands)
Selects == {j \in 1..Len(trace) : IsSelect(trace[j])}

Blocks == {j \in 1..Len(trace) : IsBlockCmd(trace[j])}

Resets == {j \in 1..Len(trace) : IsBlockCmd(trace[j]) \/ IsPriming(trace[j])}

\* how many positions of P lie before j
Before(P, j) == Cardinality({m \in P : m < j})

\* between the last position of R before j and j there is an LED command
\* and, after it, a has_card query answered 'present'
Checked(R, j) ==
  \E a \in 1..(j - 1) :
    /\ IsLed(trace[a])
    /\ \A m \in R : m < a \/ m >= j
    /\ \E b \in (a + 1)..(j - 1) : AnsweredAt(b, Present)

\* the physical page of logical page p as section 3 of the specification
\* gives it, and the select-page frame that carries it
PhysicalPage(layout, p) ==
  MEMORY_OFFSETS[layout[(p \div 32) + 1] + 1] + (p % 32)

SelectFrame(layout, p) ==
  Lit(<<48, 0, 0, PhysicalPage(layout, p) % 256, PhysicalPage(layout, p) \div 256>>)

\* ------------------------------------------------------------------------
\* C1: in every bulk operation, a has_card query answered 'absent' ends the
\* operation with the card-disappeared fault, and no select-page, read_block,
\* write_block or erase_page command follows it.
\* ------------------------------------------------------------------------
C1_CardRemovalAbort ==
  op \in BulkOps =>
    \A j \in 1..Len(trace) :
      AnsweredAt(j, Absent) =>
        /\ pc \in {"closing", "releasing", "done"}
        /\ bodyLen = j
        /\ fault # NoFault
        /\ pc = "closing" => fault = "CardDisappeared"
        /\ \A m \in (j + 1)..Len(trace) : ~IsSelect(trace[m]) /\ ~IsBlockCmd(trace[m])

C1_Witness ==
  /\ op = "write_database" /\ pc = "closing" /\ fault = "CardDisappeared"
  /\ i = BLOCKS_PER_PAGE + 1
  /\ AnsweredAt(Len(trace), Absent)

\* ------------------------------------------------------------------------
\* C2: every read_block, write_block and erase_page command of a bulk
\* operation is preceded, since the previous such command (or the priming
\* command), by an LED toggle and a has_card query answered 'present'.
\* ------------------------------------------------------------------------
\* the claim as stated: violated by the first erase of erase_database
C2_EveryCommandChecked ==
  op \in BulkOps =>
    \A R \in {Resets} :
      \A j \in 1..OpLen : IsBlockCmd(trace[j]) => Checked(R, j)

\* C2 as amended: the first erase_page of erase_database (the erase of the
\* card's final page) follows the priming command and one select-page with
\* no LED toggle and no has_card query; every other block command is checked.
C2_LoopCommandsChecked ==
  op \in BulkOps =>
    \A R \in {Resets} :
      \A j \in 1..OpLen :
        IsBlockCmd(trace[j]) =>
          \/ Checked(R, j)
          \/ /\ op = "erase_database" /\ j = 3
             /\ IsWrite(trace[1], BEFORE_WRITE) /\ IsSelect(trace[2])
             /\ IsWrite(trace[3], ERASE_PAGE)

C2_Witness ==
  /\ op = "erase_database" /\ pc = "in_use" /\ i = 2
  /\ Cardinality(Blocks) = 3

\* ------------------------------------------------------------------------
\* C3: in read_database, write_database and verify_database the j-th
\* select-page (j = 0, 1, ...) selects logical page j, follows the has_card
\* check of block 16*j and comes immediately before that block's command;
\* no other block has a select, so N block transfers have ceil(N/16) selects.
\* ------------------------------------------------------------------------
C3_PageBoundarySelect ==
  op \in BlockOps =>
    \A S \in {Selects}, B \in {Blocks} :
       /\ \A j \in S :
            j <= OpLen =>
              /\ Before(B, j) = 16 * Before(S, j)
              /\ trace[j].data = SelectFrame(memory_layout, Before(S, j))
              /\ AnsweredAt(j - 1, Present)
              /\ trace[j].ok => (j < OpLen /\ IsBlockCmd(trace[j + 1]))
       /\ \A j \in B :
            j <= OpLen =>
              /\ Before(S, j) = (Before(B, j) \div 16) + 1
              /\ (Before(B, j) % 16 = 0) => IsSelect(trace[j - 1])
       /\ (pc = "in_use" /\ Before(B, OpLen + 1) >= 1) =>
            Before(S, OpLen + 1) = (Before(B, OpLen + 1) + 15) \div 16

C3_Witness ==
  /\ op = "write_database" /\ pc = "in_use" /\ pages = 2
  /\ Cardinality(Blocks) = 2 * BLOCKS_PER_PAGE
  /\ Cardinality(Selects) = 2

\* ------------------------------------------------------------------------
\* C4: erase_database(pages = N) sends its erases in this order: the card's
\* final logical page (get_total_pages() - 1) first, then logical pages
\* 0, 1, ..., N-1; each erase_page command comes right after the select-page
\* of its page; when the card stays present and every erase is acknowledged
\* the operation returns after exactly these N + 1 erases.
\* ------------------------------------------------------------------------
\* the logical page of the k-th erase (k = 0, 1, ...)
ErasedPage(k) == IF k = 0 THEN 32 * Len(memory_layout) - 1 ELSE k - 1

C4_EraseOrder ==
  op = "erase_database" =>
    \A S \in {Selects}, B \in {Blocks} :
       /\ \A j \in S :
            j <= OpLen =>
              /\ Before(S, j) = Before(B, j)
              /\ Before(S, j) <= pages
              /\ trace[j].data = SelectFrame(memory_layout, ErasedPage(Before(S, j)))
              /\ trace[j].ok => (j < OpLen /\ IsWrite(trace[j + 1], ERASE_PAGE))
       /\ \A j \in B :
            j <= OpLen =>
              /\ IsWrite(trace[j], ERASE_PAGE)
              /\ IsSelect(trace[j - 1])
              /\ Before(S, j) = Before(B, j) + 1
       /\ (pc = "in_use" /\ fault = NoFault) =>
            /\ Before(B, OpLen + 1) = pages + 1
            /\ Before(S, OpLen + 1) = pages + 1
            /\ Len(progress) = pages

C4_Witness ==
  /\ op = "erase_database" /\ pc = "in_use" /\ fault = NoFault
  /\ pages = 2 /\ memory_layout = MEMORY_LAYOUT_4MB
  /\ Cardinality(Selects) = 3
  /\ trace[2].data = SelectFrame(memory_layout, 63)

\* ------------------------------------------------------------------------
\* C5: read_database writes the blocks the card returns, in order, until the
\* first block that is 4096 bytes of 0xFF: that block is not written, no
\* progress is reported for it, no device command follows its read, and the
\* operation returns, whatever the page count; with no such block it writes
\* all pages * 16 blocks.
\* ------------------------------------------------------------------------
\* the positions of the answered block reads
BlockReads ==
  {j \in 2..Len(trace) :
     IsWrite(trace[j - 1], READ_BLOCK) /\ trace[j].call = "read" /\ trace[j].ok}

C5_BlankBlockStopsRead ==
  op = "read_database" =>
    \A R \in {BlockReads} :
       /\ \A j \in R :
            IF trace[j].data = AllFF
            THEN /\ j = Len(trace)
                 /\ pc = "in_use" /\ fault = NoFault
                 /\ Len(out) = Before(R, j)
            ELSE /\ Len(out) > Before(R, j)
                 /\ out[Before(R, j) + 1] = trace[j].data
                 /\ trace[j].data = DataBlock(Before(R, j))
       /\ Len(out) <= Cardinality(R)
       /\ \A k \in 1..Len(out) : out[k] # AllFF
       /\ progress = [k \in 1..Len(out) |-> BLOCK_SIZE]
       /\ (pc = "in_use" /\ fault = NoFault /\ \A j \in R : trace[j].data # AllFF) =>
            Len(out) = pages * BLOCKS_PER_PAGE

C5_Witness ==
  /\ op = "read_database" /\ pc = "in_use" /\ pages = 2
  /\ Len(out) = BLOCKS_PER_PAGE + 1
  /\ trace[Len(trace)].call = "read" /\ trace[Len(trace)].data = AllFF

\* ------------------------------------------------------------------------
\* C6: write_block called with data that is not exactly 4096 bytes long
\* (shorter, empty or longer) raises the invalid-argument fault before any
\* Transport write or read: the call adds nothing to the transport trace.
\* ------------------------------------------------------------------------
C6_WrongLengthRejected ==
  (op = "write_block" /\ BLen(arg[2]) # 4096) =>
    /\ fault = "ValueError"
    /\ trace = <<>>

C6_Witness ==
  /\ op = "write_block" /\ BLen(arg[2]) = 4097
  /\ fault = "ValueError" /\ trace = <<>>

\* ------------------------------------------------------------------------
\* C7: for every layout L of offset-group indices 0..7 and every logical
\* page p with 0 <= p < 32 * Len(L), translate_page(p) is
\* MEMORY_OFFSETS[L[p div 32]] + (p mod 32), which is at most 0xFFFF, and
\* select_page(p) sends the one frame 30 00 00 followed by that value in
\* little-endian order.
\* ------------------------------------------------------------------------
InRange(p) == 0 <= p /\ p < 32 * Len(memory_layout)

C7_PageTranslation ==
  /\ (op = "translate_page" /\ InRange(arg[2])) =>
       /\ fault = NoFault
       /\ ret = <<"int", PhysicalPage(memory_layout, arg[2])>>
       /\ ret[2] <= 65535
       /\ trace = <<>>
  /\ (op = "select_page" /\ InRange(arg[2])) =>
       /\ Len(trace) = 1
       /\ trace[1].call = "write"
       /\ trace[1].data = SelectFrame(memory_layout, arg[2])
       /\ fault = IF trace[1].ok THEN NoFault ELSE "TransportError"

C7_Witness ==
  /\ op = "select_page" /\ arg = <<"int", 2 * PAGES_PER_OFFSET - 1>>
  /\ memory_layout = <<0, 7>>
  /\ fault = NoFault
  /\ trace[1].data = Lit(<<48, 0, 0, 223, 3>>)

\* ------------------------------------------------------------------------
\* Reading the session log
\* ------------------------------------------------------------------------
Logged(e) == \E k \in 1..Len(log) : log[k] = e

Times(e) == Cardinality({k \in 1..Len(log) : log[k] = e})

\* ------------------------------------------------------------------------
\* C8: in every session that hands the engine to the caller, the LED-off
\* command is sent exactly once at scope exit, after the last command of the
\* caller's body, whether the body returned normally or raised a fault.
\* ------------------------------------------------------------------------
C8_LedOffOnceAfterBody ==
  Logged("yield") =>
    /\ pc \in {"in_use", "bulk", "closing"} => ~Logged("led_off")
    /\ pc \in {"releasing", "done"} =>
         /\ Times("led_off") = 1
         /\ Len(trace) = bodyLen + 1
         /\ trace[Len(trace)].call = "write"
         /\ trace[Len(trace)].data = LED_OFF
         /\ \A k \in 1..Len(log) : log[k] = "release" => k > 1 /\ log[k - 1] = "led_off"

C8_Witness ==
  /\ Logged("yield") /\ pc = "done"
  /\ op = "verify_database" /\ fault = "VerificationFailed"
  /\ bodyLen > 1 /\ Len(trace) = bodyLen + 1
  /\ IsWrite(trace[Len(trace)], LED_OFF)

\* ------------------------------------------------------------------------
\* C9: when a session faults after the device was opened and before the
\* engine is handed to the caller (during the handshake or the card
\* detection), teardown sends the LED-off command before the interface is
\* released.
\* ------------------------------------------------------------------------
C9_LedOffBeforeYield ==
  (pc = "done" /\ Logged("init") /\ ~Logged("yield")) =>
    \E a, b \in 1..Len(log) : a < b /\ log[a] = "led_off" /\ log[b] = "release"

\* ------------------------------------------------------------------------
\* C10: on every exit path of a device session the opened USB device handle
\* is closed exactly once and the claimed interface is released.
\* ------------------------------------------------------------------------
C10_HandleClosedOnce ==
  (pc = "done" /\ Logged("init")) =>
    /\ Times("close") = 1
    /\ Times("release") = 1

\* ------------------------------------------------------------------------
\* C11: verify_database compares, for i = 0, 1, ..., block i of the source
\* (right-padded with 0xFF to 4096 bytes) with the block read from the card;
\* at the first i where they differ it raises the verification fault for
\* block i, reads no further block and reports no progress for block i; it
\* returns normally only after pages * 16 equal blocks.
\* ------------------------------------------------------------------------
\* bytes [4096 * k, 4096 * (k + 1)) of the source file, padded with 0xFF
SourceBlock(k) ==
  Cat(Take(Drop(source, 4096 * k), 4096),
      Bytes(255, 4096 - BLen(Take(Drop(source, 4096 * k), 4096))))

C11_VerifyFirstMismatch ==
  op = "verify_database" =>
    \A R \in {BlockReads} :
       /\ \A j \in R :
            IF trace[j].data = SourceBlock(Before(R, j))
            THEN /\ Len(progress) > Before(R, j)
                 /\ i > Before(R, j)
            ELSE /\ j = Len(trace)
                 /\ fault = "VerificationFailed" /\ pc = "closing"
                 /\ i = Before(R, j)
                 /\ Len(progress) = Before(R, j)
       /\ fault = "VerificationFailed" =>
            /\ Len(trace) \in R
            /\ trace[Len(trace)].data # SourceBlock(i)
       /\ progress = [k \in 1..Len(progress) |-> 4096]
       /\ Len(progress) = i
       /\ pc = "in_use" =>
            /\ fault = NoFault
            /\ Cardinality(R) = pages * 16
            /\ \A j \in R : trace[j].data = SourceBlock(Before(R, j))
       /\ (Cardinality(R) = pages * 16 /\ \A j \in R : trace[j].data = SourceBlock(Before(R, j))) =>
            /\ fault # "VerificationFailed"
            /\ fault = NoFault => (pc \in {"bulk", "in_use"} /\ i = pages * 16)

C11_Witness ==
  /\ op = "verify_database" /\ pages = 2
  /\ fault = "VerificationFailed"
  /\ i = BLOCKS_PER_PAGE + 1
  /\ trace[Len(trace)].data = DataBlock(i)
  /\ SourceBlock(i) = AllFF

\* ------------------------------------------------------------------------
\* C12: write_database(pages, source) sends write_block commands whose
\* payloads are exactly 4096 bytes long: the i-th carries source bytes
\* [4096 * i, 4096 * (i + 1)) right-padded with 0xFF, and is all 0xFF once
\* the source is exhausted; a short or empty read from the source raises no
\* fault; when the card stays present and every write is acknowledged the
\* operation returns after exactly pages * 16 of them.
\* ------------------------------------------------------------------------
\* the positions of the write_block opcodes
WriteCmds == {j \in 1..Len(trace) : IsWrite(trace[j], WRITE_BLOCK)}

C12_WritePadsBlocks ==
  op = "write_database" =>
    \A W \in {WriteCmds} :
       /\ \A j \in W :
            /\ Before(W, j) < pages * 16
            /\ (trace[j].ok => j < Len(trace))
            /\ j < Len(trace) =>
                 /\ trace[j + 1].call = "write"
                 /\ BLen(trace[j + 1].data) = 4096
                 /\ trace[j + 1].data = SourceBlock(Before(W, j))
                 /\ 4096 * Before(W, j) >= BLen(source) => trace[j + 1].data = AllFF
       /\ fault # "ValueError"
       /\ pc = "in_use" =>
            /\ fault = NoFault
            /\ Cardinality(W) = pages * 16
            /\ Len(progress) = pages * 16
       /\ progress = [k \in 1..Len(progress) |-> 4096]

C12_Witness ==
  /\ op = "write_database" /\ pc = "in_use" /\ pages = 2
  /\ source = Cat(Bytes(65, 4096), Bytes(66, 10))
  /\ Cardinality(WriteCmds) = 32
  /\ trace[Len(trace) - 1].data = AllFF
  /\ \E j \in WriteCmds : trace[j + 1].data = Cat(Bytes(66, 10), Bytes(255, 4086))

\* ------------------------------------------------------------------------
\* C13: the identification handshake issues three control reads in the order
\* device descriptor (18 bytes), configuration descriptor (9 bytes),
\* configuration descriptor (32 bytes); when an answer differs from its
\* fixture in a byte or in length the handshake raises the
\* unexpected-response fault at that step, and the session sends no later
\* control read and no bulk command.
\* ------------------------------------------------------------------------
ControlReads == {j \in 1..Len(trace) : trace[j].call = "control_read"}

\* the request, the length and the fixture of the n-th control read
HandshakeStep(n) ==
  CASE n = 1 -> [req |-> <<128, 6, 256, 0>>, len |-> 18, fixture |-> DEVICE_DESCRIPTOR]
    [] n = 2 -> [req |-> <<128, 6, 512, 0>>, len |-> 9, fixture |-> CONFIG_SHORT]
    [] n = 3 -> [req |-> <<128, 6, 512, 0>>, len |-> 32, fixture |-> CONFIG_FULL]

C13_HandshakeOrder ==
  /\ op # "none" => ControlReads = {}
  /\ (op = "none" /\ Logged("init")) =>
       \A C \in {ControlReads} :
          /\ C = 1..Cardinality(C) /\ Cardinality(C) \in 1..3
          /\ \A n \in C :
               /\ trace[n].req = HandshakeStep(n).req
               /\ trace[n].len = HandshakeStep(n).len
               /\ IF trace[n].ok /\ trace[n].data = HandshakeStep(n).fixture
                  THEN n = 3 \/ n + 1 \in C
                  ELSE /\ Len(trace) = n
                       /\ pc \in {"releasing", "done"}
                       /\ ~Logged("card") /\ ~Logged("yield")
                       /\ fault = IF trace[n].ok THEN "UnexpectedResponse" ELSE "TransportError"
          /\ (Logged("card") \/ Logged("yield") \/ pc = "identified") => Cardinality(C) = 3

C13_Witness ==
  /\ op = "none" /\ pc = "done" /\ fault = "UnexpectedResponse"
  /\ Len(trace) = 2
  /\ trace[2].call = "control_read" /\ trace[2].ok
  /\ BLen(trace[2].data) = 9 /\ trace[2].data # CONFIG_SHORT

\* ------------------------------------------------------------------------
\* C14: in every session no read_block, write_block or erase_page command is
\* sent before the identification handshake has succeeded, and, when the
\* caller required a data card, before has_card has returned 'present' and
\* the IID has been recognised and mapped to a memory layout.
\* ------------------------------------------------------------------------
\* the trace up to the yield holds a handshake whose three answers match
HandshakeDone ==
  /\ Len(trace) >= 3
  /\ \A n \in 1..3 :
       /\ trace[n].call = "control_read" /\ trace[n].ok
       /\ trace[n].data = HandshakeStep(n).fixture

\* ... and a card detection that found a card with a known IID
CardDetected ==
  /\ Len(trace) = 11
  /\ AnsweredAt(5, Present)
  /\ IsWrite(trace[10], GET_IID) /\ trace[11].call = "read" /\ trace[11].ok
  /\ \/ IntFromLE(trace[11].data) = Lit(<<0, 65, 0, 1>>) /\ memory_layout = <<0, 1, 2, 3, 4, 5, 6, 7>>
     \/ IntFromLE(trace[11].data) = Lit(<<0, 173, 0, 1>>) /\ memory_layout = <<0, 2>>

C14_NoFlashBeforeReady ==
  /\ op = "none" => Blocks = {}
  /\ (op = "none" /\ pc = "in_use") =>
       /\ HandshakeDone
       /\ IF need_data_card THEN CardDetected ELSE Len(trace) = 3
  /\ op # "none" =>
       /\ Logged("yield")
       /\ need_data_card => (Logged("card") /\ memory_layout # MEMORY_LAYOUT_UNKNOWN)

C14_Witness ==
  /\ need_data_card /\ op = "read_database" /\ pc = "bulk"
  /\ memory_layout = MEMORY_LAYOUT_4MB
  /\ Cardinality(Blocks) = 1

\* ------------------------------------------------------------------------
\* C15: init_data_card raises the card-missing fault and sends no further
\* command when has_card returns 'absent'; otherwise it maps IID 0x01004100
\* to the 8-group layout (256 pages) and IID 0x0100AD00 to the layout [0, 2]
\* (64 pages), and for every other IID raises the unknown-card fault and
\* leaves the single-group default layout (32 pages).
\* ------------------------------------------------------------------------
\* the card detection got an answer to its IID query
IidAnswered ==
  /\ Len(trace) >= 11
  /\ AnsweredAt(5, Present)
  /\ IsWrite(trace[10], GET_IID) /\ trace[11].call = "read" /\ trace[11].ok

C15_CardDetection ==
  (op = "none" /\ Logged("card")) =>
    /\ (Len(trace) >= 5 /\ AnsweredAt(5, Absent)) =>
         /\ Len(trace) = 5
         /\ fault = "CardMissing" /\ ~Logged("yield")
         /\ memory_layout = <<0>>
    /\ IidAnswered =>
         IF IntFromLE(trace[11].data) = Lit(<<0, 65, 0, 1>>)
         THEN /\ memory_layout = <<0, 1, 2, 3, 4, 5, 6, 7>>
              /\ get_total_pages(memory_layout) = 256 /\ Logged("yield")
         ELSE IF IntFromLE(trace[11].data) = Lit(<<0, 173, 0, 1>>)
         THEN /\ memory_layout = <<0, 2>>
              /\ get_total_pages(memory_layout) = 64 /\ Logged("yield")
         ELSE /\ fault = "UnknownCard" /\ ~Logged("yield")
              /\ Len(trace) = 11
              /\ memory_layout = <<0>>
              /\ get_total_pages(memory_layout) = 32

C15_Witness ==
  /\ op = "none" /\ Logged("card") /\ pc = "done"
  /\ IidAnswered /\ trace[11].data = Lit(<<0, 66, 0, 1>>)
  /\ fault = "UnknownCard" /\ memory_layout = <<0>>

\* ------------------------------------------------------------------------
\* C16: once the engine has been handed to the caller with the layout that
\* init_data_card set, no engine operation of the session (a direct command
\* or a bulk operation, succeeding or faulting) and no teardown step changes
\* the memory layout or get_total_pages().
\* ------------------------------------------------------------------------
C16_LayoutFrozen ==
  [][Logged("yield") =>
       /\ memory_layout' = memory_layout
       /\ get_total_pages(memory_layout') = get_total_pages(memory_layout)]_vars

C16_Witness ==
  /\ Logged("card") /\ Logged("yield") /\ pc = "done"
  /\ op = "erase_database" /\ fault = "UnexpectedResponse"
  /\ memory_layout = MEMORY_LAYOUT_16MB

\* ------------------------------------------------------------------------
\* C17: has_card sends the single byte 0x18 and performs one read; it
\* returns 'present' iff the answer is exactly the one byte 0x00, 'absent'
\* iff it is exactly the one byte 0x01, and raises the unexpected-response
\* fault for every other answer (another byte, nothing, more than one byte).
\* ------------------------------------------------------------------------
C17_HasCardAnswers ==
  op = "has_card" =>
    /\ Len(trace) \in 1..2
    /\ trace[1].call = "write" /\ trace[1].data = Lit(<<24>>)
    /\ trace[1].ok = (Len(trace) = 2)
    /\ Len(trace) = 2 => trace[2].call = "read"
    /\ (Len(trace) = 2 /\ trace[2].ok) =>
         /\ ret = <<"bool", TRUE>> <=> trace[2].data = << <<0, 1>> >>
         /\ ret = <<"bool", FALSE>> <=> trace[2].data = << <<1, 1>> >>
         /\ fault = "UnexpectedResponse" <=> trace[2].data \notin {<< <<0, 1>> >>, << <<1, 1>> >>}
         /\ fault \in {NoFault, "UnexpectedResponse"}
         /\ fault = NoFault <=> ret # <<>>

C17_Witness ==
  /\ op = "has_card" /\ Len(trace) = 2 /\ trace[2].ok
  /\ trace[2].data = Lit(<<0, 0>>)
  /\ fault = "UnexpectedResponse"

\* ------------------------------------------------------------------------
\* C18: write_block with a 4096-byte payload sends the opcode 2A 04, then
\* the payload, then performs one read of up to 64 bytes; it returns
\* normally iff response[0] is the last payload byte and response[1:4] is
\* 00 00 00, for a response of any length from 4 to 64 bytes, and raises the
\* unexpected-response fault otherwise.
\* ------------------------------------------------------------------------
\* write_block(arg) got as far as an answer to its read
BlockWritten ==
  /\ op = "write_block" /\ BLen(arg[2]) = 4096
  /\ Len(trace) = 3 /\ trace[3].ok

\* the first four bytes of the answer are the echo and three zero bytes
AckPrefixGood(resp) ==
  /\ BLen(resp) >= 4
  /\ Take(resp, 1) = Bytes(Last(arg[2]), 1)
  /\ Take(Drop(resp, 1), 3) = << <<0, 3>> >>

\* the claim as stated: violated by an answer longer than four bytes whose
\* first four bytes are good, and by an empty answer
C18_AckPrefixAccepted ==
  BlockWritten =>
    /\ fault = NoFault <=> AckPrefixGood(trace[3].data)
    /\ fault \in {NoFault, "UnexpectedResponse"}

\* C18 as amended: write_block returns normally iff the answer is exactly
\* four bytes, the last payload byte followed by 00 00 00; every other
\* non-empty answer, also a longer one whose first four bytes are good,
\* raises the unexpected-response fault, and an empty answer an index error.
C18_AckExact ==
  (op = "write_block" /\ BLen(arg[2]) = 4096) =>
    /\ Len(trace) \in 1..3
    /\ trace[1].call = "write" /\ trace[1].data = Lit(<<42, 4>>)
    /\ Len(trace) >= 2 => (trace[2].call = "write" /\ trace[2].data = arg[2])
    /\ Len(trace) = 3 => (trace[3].call = "read" /\ trace[3].len = 64)
    /\ \A n \in 1..(Len(trace) - 1) : trace[n].ok
    /\ BlockWritten =>
         /\ fault = NoFault <=>
              (BLen(trace[3].data) = 4 /\ AckPrefixGood(trace[3].data))
         /\ fault = "IndexError" <=> trace[3].data = <<>>
         /\ fault \in {NoFault, "IndexError", "UnexpectedResponse"}

C18_Witness ==
  /\ BlockWritten
  /\ BLen(trace[3].data) = 64 /\ AckPrefixGood(trace[3].data)
  /\ fault = "UnexpectedResponse"

\* ------------------------------------------------------------------------
\* C19: each bulk operation sends its priming command exactly once, as the
\* first command of the operation, before the first LED toggle, has_card
\* query, select-page or block command: 0x40 for read_database and
\* verify_database, 0x42 for write_database and erase_database; it is not
\* sent again at page boundaries.
\* ------------------------------------------------------------------------
PrimingByte == IF op \in {"read_database", "verify_database"} THEN 64 ELSE 66

C19_PrimingOnce ==
  op \in BulkOps =>
    /\ Len(trace) >= 1
    /\ trace[1].call = "write" /\ trace[1].data = << <<PrimingByte, 1>> >>
    /\ trace[1].ok = (Len(trace) > 1 \/ fault = NoFault)
    /\ \A j \in 2..OpLen :
         trace[j].call = "write" => trace[j].data \notin {<< <<64, 1>> >>, << <<66, 1>> >>}

C19_Witness ==
  /\ op = "verify_database" /\ pc = "in_use" /\ pages = 2 /\ i = 2 * BLOCKS_PER_PAGE
  /\ trace[1].data = Lit(<<64>>)
  /\ Cardinality(Selects) = 2

\* ------------------------------------------------------------------------
\* C20: in every bulk operation, iteration i sends exactly one LED command,
\* right before its has_card query: LED-on (0x12) when i is even, LED-off
\* (0x13) when i is odd, so the LED commands of consecutive iterations
\* alternate, starting with on at i = 0.
\* ------------------------------------------------------------------------
\* the positions of the LED commands of the operation
Leds == {j \in 1..OpLen : trace[j].call = "write"
                          /\ trace[j].data \in {<< <<18, 1>> >>, << <<19, 1>> >>}}

\* the block commands sent before the loop: the first erase of erase_database
Preloop == IF op = "erase_database" THEN 1 ELSE 0

C20_LedAlternates ==
  op \in BulkOps =>
    \A L \in {Leds}, B \in {Blocks} :
       /\ \A j \in L :
            /\ trace[j].data = IF Before(L, j) % 2 = 0 THEN << <<18, 1>> >> ELSE << <<19, 1>> >>
            /\ Before(B, j) = Before(L, j) + Preloop
            /\ trace[j].ok = (j < OpLen)
            /\ j < OpLen => IsWrite(trace[j + 1], HAS_CARD)
       /\ \A j \in 1..OpLen :
            IsWrite(trace[j], HAS_CARD) => (j - 1) \in L
       /\ \A j \in B :
            (j <= OpLen /\ Before(B, j) >= Preloop) => Before(L, j) = Before(B, j) - Preloop + 1
       /\ Cardinality(L) \in {i, i + 1}
       /\ pc = "bulk" => Cardinality(L) = i

C20_Witness ==
  /\ op = "read_database" /\ pc = "bulk" /\ i = 3
  /\ Cardinality(Leds) = 3
  /\ \E j \in Leds : Before(Leds, j) = 1 /\ trace[j].data = Lit(<<19>>)

\* ------------------------------------------------------------------------
\* C21: every bulk operation invokes the progress callback exactly once per
\* completed unit, after the unit's device command succeeded, with 4096 for
\* each block read, written or verified and 65536 for each page erased: the
\* reports are as many as the blocks transferred (read, write, verify) and
\* as many as the erase_page commands acknowledged (erase).
\* ------------------------------------------------------------------------
\* the positions of the acknowledgements of erase_page and write_block
AckedErases ==
  {j \in 2..Len(trace) :
     /\ IsWrite(trace[j - 1], ERASE_PAGE)
     /\ trace[j].call = "read" /\ trace[j].ok /\ trace[j].data = << <<4, 1>> >>}

AckedWrites ==
  {j \in 3..Len(trace) :
     /\ IsWrite(trace[j - 2], WRITE_BLOCK) /\ trace[j - 1].call = "write"
     /\ trace[j].call = "read" /\ trace[j].ok
     /\ trace[j].data = Cat(Bytes(Last(trace[j - 1].data), 1), << <<0, 3>> >>)}

\* the blocks read_database and verify_database took from the card
GoodReads ==
  {j \in BlockReads :
     IF op = "verify_database" THEN trace[j].data = SourceBlock(Before(BlockReads, j))
     ELSE trace[j].data # AllFF}

\* the units completed by the three block operations
BlockUnits ==
  IF op = "write_database" THEN Cardinality(AckedWrites) ELSE Cardinality(GoodReads)

SimErased == [flash |-> {}, cur |-> <<0, 0>>, await |-> FALSE, ans |-> <<>>]

\* the content of the block under the cursor
SimBlock(dev) ==
  IF \E e \in dev.flash : e.at = dev.cur
  THEN (CHOOSE e \in dev.flash : e.at = dev.cur).data
  ELSE Bytes(255, 4096)

SimAdvance(dev) == <<dev.cur[1], dev.cur[2] + 1>>

\* the device receives one bulk write
SimWrite(dev, data) ==
  IF dev.await
  THEN [flash |-> {e \in dev.flash : e.at # dev.cur} \cup {[at |-> dev.cur, data |-> data]},
        cur |-> SimAdvance(dev), await |-> FALSE,
        ans |-> Cat(Bytes(Last(data), 1), Bytes(0, 3))]
  ELSE IF data = Lit(<<42, 4>>) THEN [dev EXCEPT !.await = TRUE]
  ELSE IF BLen(data) = 5 /\ Take(data, 3) = Lit(<<48, 0, 0>>)
       THEN [dev EXCEPT !.cur = <<ByteAt(data, 3) + 256 * ByteAt(data, 4), 0>>]
  ELSE IF data = Lit(<<40>>)
       THEN [dev EXCEPT !.ans = SimBlock(dev), !.cur = SimAdvance(dev)]
  ELSE dev

RECURSIVE SimFeed(_, _, _)
\* the device after the bulk writes t[n], t[n + 1], ... of a trace
SimFeed(dev, t, n) ==
  IF n > Len(t) THEN dev
  ELSE SimFeed(IF t[n].call = "write" /\ t[n].ok THEN SimWrite(dev, t[n].data) ELSE dev,
               t, n + 1)

\* the answer the device holds once it has received the bulk writes of r
SimAnswer(r) == SimFeed(SimErased, r.t, 1).ans

\* the blocks written in the round trip
RoundTripBlocks == {Bytes(65, BLOCK_SIZE), Bytes(0, BLOCK_SIZE), AllFF,
                    Cat(Bytes(1, 100), Bytes(2, BLOCK_SIZE - 100))}

\* select_page(p); write_block(d); select_page(p); read_block() on the
\* simulated device
round_trip ==
  /\ pc = "in_use" /\ op = "none"
  /\ \E p \in 0..(get_total_pages(memory_layout) - 1), d \in RoundTripBlocks :
       LET r1 == select_page(Run(<<>>, 0), memory_layout, p)
           r2 == write_block(r1, d, SimAnswer(write(write(r1, WRITE_BLOCK), d)))
           r3 == select_page(r2, memory_layout, p)
           r4 == read_block(r3, SimAnswer(write(r3, READ_BLOCK)))
       IN /\ Outcome(r4, "in_use")
          /\ arg' = <<"page_bytes", p, d>>
          /\ ret' = IF r4.f = NoFault THEN <<"bytes", r4.v>> ELSE <<>>
  /\ op' = "round_trip"
  /\ pages' = 0 /\ i' = 0 /\ fd' = <<>> /\ source' = <<>> /\ out' = <<>> /\ progress' = <<>>
  /\ UNCHANGED sessionVars

NextRoundTrip == round_trip

SpecRoundTrip == InitEngine /\ [][NextRoundTrip]_vars

\* ------------------------------------------------------------------------
\* C22: against the simulated device, select_page(p) and write_block(d) for
\* a 4096-byte d on an erased page, followed by select_page(p) and
\* read_block(), returns exactly d.
\* ------------------------------------------------------------------------
C22_WriteReadRoundTrip ==
  op = "round_trip" =>
    /\ fault = NoFault
    /\ ret = <<"bytes", arg[3]>>
    /\ Len(trace) = 7

C22_Witness ==
  /\ op = "round_trip" /\ memory_layout = <<0, 7>>
  /\ arg = <<"page_bytes", 33, Cat(Bytes(1, 100), Bytes(2, BLOCK_SIZE - 100))>>
  /\ ret = <<"bytes", Cat(Bytes(1, 100), Bytes(2, BLOCK_SIZE - 100))>>
  /\ trace[7].call = "read" /\ trace[7].len = 4096

\* ------------------------------------------------------------------------
\* A session whose first and only bulk operation is write_database: the
\* caller of the engine is free to call it with no erase_database before.
\* The trace of the operation is then every command of the session.
\* ------------------------------------------------------------------------
first_write_database == Fresh /\ start_write_database

NextWriteFirst ==
  \/ first_write_database
  \/ write_database_iter
  \/ bulk_return

SpecWriteFirst == InitBulk /\ [][NextWriteFirst]_vars

\* the select-page frame in force at position j of the trace
SelectedAt(j) ==
  LET S == {m \in Selects : m < j}
  IN IF S = {} THEN <<>> ELSE trace[CHOOSE m \in S : \A n \in S : n <= m].data

\* ------------------------------------------------------------------------
\* C23: within a session, write_database sends a write_block command only
\* to a page for which an erase_page command was sent earlier in the same
\* session.  (Stated over the session that begins with write_database, whose
\* trace holds every command of the session.)
\* ------------------------------------------------------------------------
C23_EraseBeforeWrite ==
  op = "write_database" =>
    \A j \in WriteCmds :
       trace[j].ok =>
         \E e \in 1..(j - 1) :
            /\ IsWrite(trace[e], ERASE_PAGE) /\ trace[e].ok
            /\ SelectedAt(e) = SelectedAt(j)

\* ------------------------------------------------------------------------
\* C24: no fault is swallowed or retried inside a bulk operation.  A
\* Transport call that failed is the last call of the operation (it is not
\* sent again and nothing follows it); when a Transport call fails or an
\* answer is rejected, the fault leaves the operation and the caller's body,
\* the failed call or the rejected answer is the last entry of the trace,
\* and the progress callback has run once per completed pass and no more.
\* ------------------------------------------------------------------------
CoreFaults == {"TransportError", "UnexpectedResponse", "IndexError"}

C24_NoFaultSwallowed ==
  op \in BulkOps =>
    /\ \A j \in 1..Len(trace) : ~trace[j].ok => (j = Len(trace) /\ fault = "TransportError")
    /\ fault \in CoreFaults =>
         /\ pc = "closing"
         /\ bodyLen = Len(trace) /\ Len(trace) > 0
         /\ (fault = "TransportError") = ~trace[Len(trace)].ok
         /\ fault # "TransportError" => trace[Len(trace)].call = "read"
         /\ Len(progress) = i /\ i <= Limit

C24_Witness ==
  /\ op \in BulkOps /\ fault \in CoreFaults /\ i > 0
  /\ Len(trace) > 0

\* ------------------------------------------------------------------------
\* C25: for every logical page outside 0..get_total_pages()-1, negative
\* pages included, translate_page raises the index fault and select_page
\* sends no command to the device.
\* ------------------------------------------------------------------------
C25_OutOfRangeFaults ==
  (op \in {"translate_page", "select_page"} /\ ~InRange(arg[2])) =>
    /\ fault = "IndexError"
    /\ trace = <<>>

\* ------------------------------------------------------------------------
\* crc32q.py.  A 32-bit value is kept as the pair <<high, low>> of its
\* 16-bit halves (TLC's integers are 32 bits wide, sign included); a
\* message is a plain sequence of bytes.
\* ------------------------------------------------------------------------
RECURSIVE Xor(_, _)
\* a ^ b on non-negative integers
Xor(a, b) ==
  IF a = 0 THEN b
  ELSE IF b = 0 THEN a
  ELSE 2 * Xor(a \div 2, b \div 2) + ((a + b) % 2)

\* u ^ v on 32-bit values
XorW(u, v) == <<Xor(u[1], v[1]), Xor(u[2], v[2])>>

\* CRC32Q_POLYNOMIAL = 0x814141AB
CRC32Q_POLYNOMIAL == <<33089, 16811>>

\* (value << 1) & 0xFFFFFFFF
Shl1(value) == <<(2 * value[1] + value[2] \div 32768) % 65536, (2 * value[2]) % 65536>>

\* one pass of the inner loop of _create_crc32_q_lookup_table; value <<= 1
\* is not masked: the upper half takes whatever the shift carries into it
table_round(value) ==
  IF value[1] >= 32768 THEN XorW(Shl1(value), CRC32Q_POLYNOMIAL)
  ELSE <<2 * value[1] + value[2] \div 32768, (2 * value[2]) % 65536>>

RECURSIVE table_rounds(_, _)
\* for _ in range(n)
table_rounds(value, n) ==
  IF n = 0 THEN value ELSE table_rounds(table_round(value), n - 1)

\* _crc32_q_lookup_table, indexed from 1
crc32_q_lookup_table == [k \in 1..256 |-> table_rounds(<<(k - 1) * 256, 0>>, 8)]

\* mutant: the table index is the data byte alone
crc32_q_step_index_byte_only(value, b) ==
  XorW(crc32_q_lookup_table[b + 1],
       <<(value[1] % 256) * 256 + value[2] \div 256, (value[2] % 256) * 256>>)

\* mutant: the running value is shifted without the mask 0x00FFFFFF
crc32_q_step_unmasked(value, b) ==
  IF value[1] < 0 \/ Xor(b, value[1] \div 256) > 255 THEN <<-1, -1>>
  ELSE XorW(crc32_q_lookup_table[Xor(b, value[1] \div 256) + 1],
            <<value[1] * 256 + value[2] \div 256, (value[2] % 256) * 256>>)

\* the body of the loop of calculate_crc32_q:
\*   index = b ^ (value >> 24)
\*   value = _crc32_q_lookup_table[index] ^ ((value & 0x00FFFFFF) << 8)
\* The upper half of a value holds every bit from bit 16 up.  <<-1, -1>>
\* stands for the IndexError of a table index above 255.
crc32_q_step(value, b) ==
  IF value[1] < 0 \/ Xor(b, value[1] \div 256) > 255 THEN <<-1, -1>>
  ELSE XorW(crc32_q_lookup_table[Xor(b, value[1] \div 256) + 1],
            <<(value[1] % 256) * 256 + value[2] \div 256, (value[2] % 256) * 256>>)

RECURSIVE crc32_q_loop(_, _)
\* for b in data
crc32_q_loop(data, value) ==
  IF data = <<>> THEN value ELSE crc32_q_loop(Tail(data), crc32_q_step(value, Head(data)))

\* mutant: the result is inverted at the end, as CRC-32 does
calculate_crc32_q_final_xor(data, value) == XorW(crc32_q_loop(data, value), <<65535, 65535>>)

calculate_crc32_q(data, value) == crc32_q_loop(data, value)

\* mutant: the bytes of the value, least significant first
to_bytes_4_little(value) ==
  <<value[2] % 256, value[2] \div 256, value[1] % 256, value[1] \div 256>>

\* value.to_bytes(4, 'big')
to_bytes_4_big(value) ==
  <<value[1] \div 256, value[1] % 256, value[2] \div 256, value[2] % 256>>

\* the default initial value, 0
CrcZero == <<0, 0>>

\* the messages checked: every one of up to MaxCrcLen bytes over a few byte
\* values, and the texts of tests/test_crc32q.py (b'hello ', b'world')
CrcBytes == {0, 1, 128, 255}

HelloText == <<104, 101, 108, 108, 111, 32>>

WorldText == <<119, 111, 114, 108, 100>>

CrcData == UNION {[1..n -> CrcBytes] : n \in 0..MaxCrcLen} \cup {HelloText, WorldText}

\* no device: a pair of messages is at hand
InitCrc ==
  /\ pc = "closed"
  /\ fault = NoFault
  /\ need_data_card = FALSE
  /\ memory_layout = MEMORY_LAYOUT_UNKNOWN
  /\ trace = <<>>
  /\ log = <<>>
  /\ op = "none"
  /\ pages = 0
  /\ i = 0
  /\ fd = <<>>
  /\ source = <<>>
  /\ out = <<>>
  /\ progress = <<>>
  /\ bodyLen = -1
  /\ arg \in CrcData \X CrcData
  /\ ret = <<>>

\* calculate_crc32_q(a)
crc_plain ==
  /\ op = "none"
  /\ op' = "crc_plain"
  /\ ret' = calculate_crc32_q(arg[1], CrcZero)
  /\ UNCHANGED <<pc, fault, need_data_card, memory_layout, trace, log, pages, i, fd,
               source, out, progress, bodyLen, arg>>

\* calculate_crc32_q(b, calculate_crc32_q(a))
crc_chained ==
  /\ op = "none"
  /\ op' = "crc_chained"
  /\ ret' = calculate_crc32_q(arg[2], calculate_crc32_q(arg[1], CrcZero))
  /\ UNCHANGED <<pc, fault, need_data_card, memory_layout, trace, log, pages, i, fd,
               source, out, progress, bodyLen, arg>>

\* calculate_crc32_q(a + calculate_crc32_q(a).to_bytes(4, 'big'))
crc_checked ==
  /\ op = "none"
  /\ op' = "crc_checked"
  /\ ret' = calculate_crc32_q(arg[1] \o to_bytes_4_big(calculate_crc32_q(arg[1], CrcZero)),
                              CrcZero)
  /\ UNCHANGED <<pc, fault, need_data_card, memory_layout, trace, log, pages, i, fd,
               source, out, progress, bodyLen, arg>>

NextCrc ==
  \/ crc_plain
  \/ crc_chained
  \/ crc_checked

SpecCrc == InitCrc /\ [][NextCrc]_vars

\* ------------------------------------------------------------------------
\* C26: chaining.  calculate_crc32_q(b, calculate_crc32_q(a)) equals
\* calculate_crc32_q(a + b) for all messages a and b.
\* ------------------------------------------------------------------------
C26_CrcChaining ==
  op = "crc_chained" => ret = calculate_crc32_q(arg[1] \o arg[2], CrcZero)

\* test_crc32_q_initial: b'world' after b'hello ' gives 0x13aa9356
C26_Witness ==
  /\ op = "crc_chained" /\ arg = <<HelloText, WorldText>>
  /\ ret = <<5034, 37718>>

\* ------------------------------------------------------------------------
\* C27: residue.  For every message m, the checksum of m followed by the
\* four bytes of calculate_crc32_q(m), most significant first, is 0.
\* ------------------------------------------------------------------------
C27_CrcResidue ==
  op = "crc_checked" => ret = CrcZero

C27_Witness ==
  /\ op = "crc_checked" /\ arg[1] = HelloText
  /\ to_bytes_4_big(calculate_crc32_q(HelloText, CrcZero)) = <<160, 160, 14, 32>>
  /\ ret = CrcZero

\* ------------------------------------------------------------------------
\* The bit-serial CRC-32 with polynomial 0x814141AB, most significant bit
\* first, initial value 0, no final XOR: the message is shifted in one bit
\* at a time.
\* ------------------------------------------------------------------------
\* the bit leaving the register, XORed with the message bit, feeds back
NaiveBit(crc, bit) ==
  IF (crc[1] \div 32768) # bit THEN XorW(Shl1(crc), CRC32Q_POLYNOMIAL) ELSE Shl1(crc)

RECURSIVE NaiveShift(_, _, _)
\* the register after the n most significant bits of the byte b went in
NaiveShift(crc, b, n) ==
  IF n = 0 THEN crc ELSE NaiveBit(NaiveShift(crc, b, n - 1), (b \div (2 ^ (8 - n))) % 2)

\* a 32-bit register
IsWord(w) == w[1] \in 0..65535 /\ w[2] \in 0..65535

RECURSIVE NaiveRegister(_, _)
\* the register crc after the bytes of data went in
NaiveRegister(data, crc) ==
  IF data = <<>> \/ ~IsWord(crc) THEN crc
  ELSE NaiveRegister(Tail(data), NaiveShift(crc, Head(data), 8))

NaiveCrc(data) == NaiveRegister(data, CrcZero)

\* ------------------------------------------------------------------------
\* C28: the table-driven calculate_crc32_q(data, 0) equals the bit-serial
\* CRC-32 (polynomial 0x814141AB, most significant bit first, initial value
\* 0, no final XOR) of the same bytes.
\* ------------------------------------------------------------------------
C28_TableEqualsBitwise ==
  op = "crc_plain" => ret = NaiveCrc(arg[1])

C28_Witness ==
  /\ op = "crc_plain" /\ arg[1] = <<255, 128>>
  /\ ret = <<110, 60928>>
  /\ ret = NaiveCrc(<<255, 128>>)

\* ------------------------------------------------------------------------
\* get_iid or get_unknown ran to its end: select_page(0), the priming byte
\* of before_read, the opcode, one read of up to 64 bytes
\* ------------------------------------------------------------------------
IdQueried ==
  /\ op \in {"get_iid", "get_unknown"} /\ fault = NoFault
  /\ Len(trace) = 4
  /\ trace[1].data = SelectFrame(memory_layout, 0)
  /\ IsWrite(trace[2], BEFORE_READ)
  /\ IsWrite(trace[3], IF op = "get_iid" THEN GET_IID ELSE GET_UNKNOWN)
  /\ trace[4].call = "read" /\ trace[4].len = 64 /\ trace[4].ok

\* the integer, kept as its little-endian bytes, is below 2^32
Below2To32(v) == BLen(v) <= 4

\* ------------------------------------------------------------------------
\* C29 as stated: get_iid and get_unknown send select_page(0), the priming
\* byte, their opcode and one read of up to 64 bytes, and the value they
\* return is in 0..2^32-1 for every answer of the device.
\* ------------------------------------------------------------------------
C29_IidIs32Bit ==
  (op \in {"get_iid", "get_unknown"} /\ fault = NoFault) =>
    /\ IdQueried
    /\ Below2To32(ret[2])

\* ------------------------------------------------------------------------
\* C29, amended: ... and they return the little-endian integer of the whole
\* answer, which is in 0..2^32-1 exactly when every byte of the answer after
\* the fourth is zero (an empty answer gives 0).
\* ------------------------------------------------------------------------
C29_IidOfWholeAnswer ==
  (op \in {"get_iid", "get_unknown"} /\ fault = NoFault) =>
    /\ IdQueried
    /\ ret = <<"int", IntFromLE(trace[4].data)>>
    /\ Below2To32(ret[2]) <=> (Drop(trace[4].data, 4) = Bytes(0, BLen(trace[4].data) - 4))

C29_Witness ==
  /\ op = "get_iid" /\ fault = NoFault
  /\ trace[4].data = Lit(<<0, 65, 0, 1, 1>>)
  /\ ret = <<"int", Lit(<<0, 65, 0, 1, 1>>)>>

\* ------------------------------------------------------------------------
\* main.py: the commands cmd_read_database and _write_database, which run
\* their own loops on the programmer handed over by with_usb.  Here the
\* trace holds the calls made on the device since the current progress bar
\* was opened, `out` is the content of the output file, and `arg` names the
\* phase of the command.
\* ------------------------------------------------------------------------
\* GarminProgrammerDevice.DATA_PAGES: the ids of the data pages of the card
DATA_PAGES == <<224, 225, 226>>

\* MAX_SIZE = len(GarminProgrammerDevice.DATA_PAGES) * 16 * 0x1000
MAX_SIZE == Len(DATA_PAGES) * 16 * 4096

\* DB_MAGIC, 64 bytes, as its runs
DB_MAGIC ==
  <<<<235, 1>>, <<60, 1>>, <<144, 1>>, <<71, 1>>, <<65, 1>>, <<82, 1>>, <<77, 1>>,
    <<73, 1>>, <<78, 1>>, <<49, 1>>, <<48, 1>>, <<0, 1>>, <<2, 1>>, <<8, 1>>, <<1, 1>>,
    <<0, 1>>, <<1, 1>>, <<0, 1>>, <<2, 1>>, <<0, 1>>, <<128, 1>>, <<240, 1>>,
    <<16, 1>>, <<0, 1>>, <<63, 1>>, <<0, 1>>, <<255, 1>>, <<0, 1>>, <<63, 1>>,
    <<0, 9>>, <<41, 1>>, <<2, 1>>, <<17, 1>>, <<0, 2>>, <<71, 1>>, <<65, 1>>,
    <<82, 1>>, <<77, 1>>, <<73, 1>>, <<78, 1>>, <<32, 1>>, <<65, 1>>, <<84, 1>>,
    <<32, 2>>, <<70, 1>>, <<65, 1>>, <<84, 1>>, <<49, 1>>, <<54, 1>>, <<32, 3>>,
    <<0, 2>> >>

\* a call of a method of the device, with its argument or its result
CliCall(name, data) == [call |-> name, req |-> <<>>, len |-> 0, data |-> data, ok |-> TRUE]

\* _loop_helper(dev, i), the card being present or not
cli_loop_helper(t, n, present) ==
  LET t2 == t \o <<CliCall("set_led", <<n % 2 = 0>>), CliCall("has_card", <<present>>)>>
  IN IF present THEN [t |-> t2, f |-> NoFault]
     ELSE [t |-> Append(t2, CliCall("set_led", <<FALSE>>)), f |-> "CardNotFound"]

\* if i % 256 == 0
cli_page_boundary(n) == n % 256 = 0

\* if i % 256 == 0: dev.select_page(page_ids[i // 16])
cli_select(t, n) ==
  IF cli_page_boundary(n)
  THEN Append(t, CliCall("select_page", <<DATA_PAGES[(n \div 16) + 1]>>)) ELSE t

\* what the card holds in block n: the last block of a page ends in blank bytes
CliBlock(n) ==
  IF n % 16 = 15 THEN Cat(Bytes(n % 255, 1024), Bytes(255, 3072)) ELSE DataBlock(n)

\* the files handed to _write_database: empty, a database of one block and
\* a bit, a file without the magic, a file that is too big
CliFiles == {<<>>, Cat(DB_MAGIC, Bytes(65, 5000)), Bytes(65, 5000), Bytes(0, MAX_SIZE + 1)}

RECURSIVE TruncateAt(_, _)
\* where the file position stands after the loop that steps back over the
\* trailing 1024-byte chunks of 0xFF
TruncateAt(file, pos) ==
  IF pos <= 0 THEN (IF BLen(file) = 0 THEN 0 ELSE 1024)
  ELSE IF Take(Drop(file, pos - 1024), 1024) # Bytes(255, 1024) THEN pos
  ELSE TruncateAt(file, pos - 1024)

\* with_usb has opened the device and called init
InitCli ==
  /\ pc = "in_use"
  /\ fault = NoFault
  /\ need_data_card = FALSE
  /\ memory_layout = MEMORY_LAYOUT_UNKNOWN
  /\ trace = <<>>
  /\ log = <<"open", "claim", "reset", "init">>
  /\ op = "none"
  /\ pages = 0
  /\ i = 0
  /\ fd = <<>>
  /\ source = <<>>
  /\ out = <<>>
  /\ progress = <<>>
  /\ bodyLen = -1
  /\ arg = <<>>
  /\ ret = <<>>

\* cmd_read_database up to its loop
cmd_read_database_enter ==
  /\ pc = "in_use" /\ op = "none"
  /\ op' = "cmd_read_database" /\ arg' = <<"read">>
  /\ trace' = <<CliCall("before_read", <<>>)>>
  /\ pc' = "bulk"
  /\ pages' = Len(DATA_PAGES)
  /\ UNCHANGED <<fault, i, fd, source, out, progress>>
  /\ UNCHANGED <<need_data_card, memory_layout, log, bodyLen, ret>>

\* one pass of the loop of cmd_read_database
cmd_read_database_iter ==
  /\ pc = "bulk" /\ op = "cmd_read_database" /\ arg = <<"read">> /\ i < pages * 16
  /\ \E present \in BOOLEAN, block \in {CliBlock(i), AllFF} :
       LET h == cli_loop_helper(trace, i, present)
       IN IF h.f # NoFault
          THEN /\ trace' = h.t /\ fault' = h.f /\ pc' = "closing"
               /\ UNCHANGED <<i, out, progress, arg>>
          ELSE /\ trace' = Append(cli_select(h.t, i), CliCall("read_block", block))
               /\ UNCHANGED <<fault, pc>>
               /\ IF block = AllFF
                  THEN arg' = <<"truncate">> /\ UNCHANGED <<i, out, progress>>
                  ELSE /\ out' = Cat(out, block)
                       /\ progress' = Append(progress, BLen(block))
                       /\ i' = i + 1
                       /\ UNCHANGED arg
  /\ UNCHANGED <<op, pages, fd, source>>
  /\ UNCHANGED <<need_data_card, memory_layout, log, bodyLen, ret>>

\* after the loop: the trailing 0xFF chunks are cut off the file
cmd_read_database_return ==
  /\ pc = "bulk" /\ op = "cmd_read_database"
  /\ arg = <<"truncate">> \/ i = pages * 16
  /\ out' = Take(out, TruncateAt(out, BLen(out)))
  /\ arg' = <<"done">>
  /\ pc' = "closing"
  /\ UNCHANGED <<fault, trace, op, pages, i, fd, source, progress>>
  /\ UNCHANGED <<need_data_card, memory_layout, log, bodyLen, ret>>

\* _write_database up to its first loop
cli_write_database_enter ==
  /\ pc = "in_use" /\ op = "none"
  /\ op' = "_write_database"
  /\ \E file \in CliFiles :
       LET size == BLen(file)
           wanted == ((size \div 16) \div 4096) + 3
           pages_required == IF wanted < Len(DATA_PAGES) THEN wanted ELSE Len(DATA_PAGES)
       IN /\ source' = file
          /\ IF size > MAX_SIZE
             THEN /\ fault' = "FileTooBig" /\ pc' = "closing"
                  /\ fd' = file /\ pages' = 0 /\ trace' = <<>> /\ arg' = <<"open">>
             ELSE IF Take(file, 64) # DB_MAGIC
             THEN /\ fault' = "BadMagic" /\ pc' = "closing"
                  /\ fd' = Drop(file, 64) /\ pages' = pages_required
                  /\ trace' = <<>> /\ arg' = <<"open">>
             ELSE /\ fault' = NoFault /\ pc' = "bulk"
                  /\ fd' = file /\ pages' = pages_required
                  /\ trace' = <<CliCall("before_write", <<>>)>> /\ arg' = <<"erase">>
  /\ UNCHANGED <<i, out, progress>>
  /\ UNCHANGED <<need_data_card, memory_layout, log, bodyLen, ret>>

\* one pass of the erase loop
cli_erase_iter ==
  /\ pc = "bulk" /\ op = "_write_database" /\ arg = <<"erase">> /\ i < pages
  /\ \E present \in BOOLEAN :
       LET h == cli_loop_helper(trace, i, present)
       IN IF h.f # NoFault
          THEN /\ trace' = h.t /\ fault' = h.f /\ pc' = "closing"
               /\ UNCHANGED <<i, progress>>
          ELSE /\ trace' = h.t \o <<CliCall("select_page", <<DATA_PAGES[i + 1]>>),
                                    CliCall("erase_page", <<>>)>>
               /\ progress' = Append(progress, 16 * 4096)
               /\ i' = i + 1
               /\ UNCHANGED <<fault, pc>>
  /\ UNCHANGED <<op, pages, fd, source, out, arg>>
  /\ UNCHANGED <<need_data_card, memory_layout, log, bodyLen, ret>>

\* the erase loop ran out: the progress bar of the write loop opens
cli_write_phase ==
  /\ pc = "bulk" /\ op = "_write_database" /\ arg = <<"erase">> /\ i = pages
  /\ arg' = <<"write">>
  /\ i' = 0 /\ progress' = <<>> /\ trace' = <<>>
  /\ UNCHANGED <<pc, fault, op, pages, fd, source, out>>
  /\ UNCHANGED <<need_data_card, memory_layout, log, bodyLen, ret>>

\* one pass of the write loop
cli_write_iter ==
  /\ pc = "bulk" /\ op = "_write_database" /\ arg = <<"write">> /\ i < pages * 16
  /\ \E present \in BOOLEAN :
       LET block == Ljust(Take(fd, 4096), 4096, 255)
           h == cli_loop_helper(trace, i, present)
       IN IF h.f # NoFault
          THEN /\ trace' = h.t /\ fault' = h.f /\ pc' = "closing"
               /\ UNCHANGED <<i, progress>>
          ELSE /\ trace' = Append(cli_select(h.t, i), CliCall("write_block", block))
               /\ progress' = Append(progress, BLen(block))
               /\ i' = i + 1
               /\ UNCHANGED <<fault, pc>>
  /\ fd' = Drop(fd, 4096)
  /\ UNCHANGED <<op, pages, source, out, arg>>
  /\ UNCHANGED <<need_data_card, memory_layout, log, bodyLen, ret>>

\* the write loop ran out: fd.seek(0), the progress bar of the verify loop
\* opens, dev.before_read()
cli_verify_phase ==
  /\ pc = "bulk" /\ op = "_write_database" /\ arg = <<"write">> /\ i = pages * 16
  /\ arg' = <<"verify">>
  /\ fd' = source
  /\ i' = 0 /\ progress' = <<>> /\ trace' = <<CliCall("before_read", <<>>)>>
  /\ UNCHANGED <<pc, fault, op, pages, source, out>>
  /\ UNCHANGED <<need_data_card, memory_layout, log, bodyLen, ret>>

\* one pass of the verify loop
cli_verify_iter ==
  /\ pc = "bulk" /\ op = "_write_database" /\ arg = <<"verify">> /\ i < pages * 16
  /\ LET file_block == Ljust(Take(fd, 4096), 4096, 255)
     IN \E present \in BOOLEAN, card_block \in {file_block, Bytes(0, 4096)} :
          LET h == cli_loop_helper(trace, i, present)
          IN IF h.f # NoFault
             THEN /\ trace' = h.t /\ fault' = h.f /\ pc' = "closing"
                  /\ UNCHANGED <<i, progress>>
             ELSE /\ trace' = Append(cli_select(h.t, i), CliCall("read_block", card_block))
                  /\ IF card_block # file_block
                     THEN /\ fault' = "VerificationFailed" /\ pc' = "closing"
                          /\ UNCHANGED <<i, progress>>
                     ELSE /\ progress' = Append(progress, BLen(file_block))
                          /\ i' = i + 1
                          /\ UNCHANGED <<fault, pc>>
  /\ fd' = Drop(fd, 4096)
  /\ UNCHANGED <<op, pages, source, out, arg>>
  /\ UNCHANGED <<need_data_card, memory_layout, log, bodyLen, ret>>

\* the verify loop ran out: _write_database returns
cli_write_database_return ==
  /\ pc = "bulk" /\ op = "_write_database" /\ arg = <<"verify">> /\ i = pages * 16
  /\ arg' = <<"done">>
  /\ pc' = "closing"
  /\ UNCHANGED <<fault, trace, op, pages, i, fd, source, out, progress>>
  /\ UNCHANGED <<need_data_card, memory_layout, log, bodyLen, ret>>

NextCli ==
  \/ cmd_read_database_enter
  \/ cmd_read_database_iter
  \/ cmd_read_database_return
  \/ cli_write_database_enter
  \/ cli_erase_iter
  \/ cli_write_phase
  \/ cli_write_iter
  \/ cli_verify_phase
  \/ cli_verify_iter
  \/ cli_write_database_return

SpecCli == InitCli /\ [][NextCli]_vars

\* the positions of the read_block and write_block calls and of the
\* select_page calls of the current loop
CliBlocks == {j \in 1..Len(trace) : trace[j].call \in {"read_block", "write_block"}}

CliSelects == {j \in 1..Len(trace) : trace[j].call = "select_page"}

\* ------------------------------------------------------------------------
\* C30: in the loops of cmd_read_database and of the write and verify
\* phases of _write_database, select_page is called before block i exactly
\* when i mod 16 = 0, with the page that holds block i: when block i is
\* transferred, (i div 16) + 1 pages have been selected, the last of them
\* page_ids[i div 16].
\* ------------------------------------------------------------------------
C30_CliPageBoundarySelect ==
  (op \in {"cmd_read_database", "_write_database"} /\ arg \in {<<"read">>, <<"write">>, <<"verify">>}) =>
    \A B \in {CliBlocks}, S \in {CliSelects} :
       \A j \in B :
          LET n == Before(B, j)
          IN /\ Before(S, j) = (n \div 16) + 1
             /\ \E m \in S :
                  /\ m < j /\ \A q \in S : q < j => q <= m
                  /\ trace[m].data = <<DATA_PAGES[(n \div 16) + 1]>>

\* ------------------------------------------------------------------------
\* The engine with one of its three built-in layouts and one page command
\* called on it
\* ------------------------------------------------------------------------
InitBuiltin ==
  /\ pc = "in_use"
  /\ fault = NoFault
  /\ need_data_card = FALSE
  /\ memory_layout \in {MEMORY_LAYOUT_UNKNOWN, MEMORY_LAYOUT_4MB, MEMORY_LAYOUT_16MB}
  /\ trace = <<>>
  /\ log = <<>>
  /\ op = "none"
  /\ pages = 0
  /\ i = 0
  /\ fd = <<>>
  /\ source = <<>>
  /\ out = <<>>
  /\ progress = <<>>
  /\ bodyLen = -1
  /\ arg = <<>>
  /\ ret = <<>>

NextBuiltin ==
  \/ Fresh /\ call_translate_page
  \/ Fresh /\ call_select_page

SpecBuiltin == InitBuiltin /\ [][NextBuiltin]_vars

\* ------------------------------------------------------------------------
\* C31: for each built-in layout, translate_page is injective on
\* 0..get_total_pages()-1 and every result lies in 0..0xFFFF, so select_page
\* for an in-range logical page never raises the invalid-page-ID fault (it
\* sends its select frame).
\* ------------------------------------------------------------------------
C31_TranslationInjective ==
  /\ (op = "translate_page" /\ InRange(arg[2])) =>
       /\ fault = NoFault
       /\ ret[2] \in 0..65535
       /\ \A q \in 0..(get_total_pages(memory_layout) - 1) :
            q # arg[2] => translate_page(memory_layout, q) # ret[2]
  /\ (op = "select_page" /\ InRange(arg[2])) =>
       /\ fault \notin {"ValueError", "IndexError"}
       /\ Len(trace) = 1 /\ IsSelect(trace[1])

C31_Witness ==
  /\ op = "translate_page" /\ memory_layout = MEMORY_LAYOUT_16MB
  /\ arg = <<"int", 255>>
  /\ ret = <<"int", 991>>

\* ------------------------------------------------------------------------
\* The bulk operations called with one page more than the card has, on the
\* engine with its default layout (32 pages) and a device that works
\* throughout the loops
\* ------------------------------------------------------------------------
erase_database_beyond ==
  /\ pc = "in_use" /\ Fresh
  /\ \E k \in 0..MaxCalls, er \in EraseResp :
       /\ pages' = get_total_pages(memory_layout) + 1
       /\ Outcome(erase_page(select_page(before_write(Run(<<>>, k)), memory_layout,
                                         get_total_pages(memory_layout) - 1), er), "bulk")
  /\ op' = "erase_database"
  /\ i' = 0 /\ fd' = <<>> /\ source' = <<>> /\ out' = <<>> /\ progress' = <<>> /\ arg' = <<>> /\ ret' = <<>>
  /\ UNCHANGED sessionVars

write_database_beyond ==
  /\ pc = "in_use" /\ Fresh
  /\ \E k \in 0..1, src \in {Bytes(67, BLOCK_SIZE * (BLOCKS_PER_PAGE + 1))} :
       /\ pages' = get_total_pages(memory_layout) + 1
       /\ fd' = src
       /\ source' = src
       /\ Outcome(before_write(Run(<<>>, k)), "bulk")
  /\ op' = "write_database"
  /\ i' = 0 /\ out' = <<>> /\ progress' = <<>> /\ arg' = <<>> /\ ret' = <<>>
  /\ UNCHANGED sessionVars

verify_database_beyond ==
  /\ pc = "in_use" /\ Fresh
  /\ \E k \in 0..1, src \in {Bytes(67, BLOCK_SIZE * (BLOCKS_PER_PAGE + 1))} :
       /\ pages' = get_total_pages(memory_layout) + 1
       /\ fd' = src
       /\ source' = src
       /\ Outcome(before_read(Run(<<>>, k)), "bulk")
  /\ op' = "verify_database"
  /\ i' = 0 /\ out' = <<>> /\ progress' = <<>> /\ arg' = <<>> /\ ret' = <<>>
  /\ UNCHANGED sessionVars

\* the device works during the step: no Transport call fails and no answer
\* is rejected, so the only fault a step can end in is the engine's own
DeviceWorks == fault' \in {NoFault, "IndexError"}

NextBeyond ==
  \/ erase_database_beyond
  \/ erase_database_iter /\ DeviceWorks
  \/ write_database_beyond
  \/ write_database_iter /\ DeviceWorks
  \/ verify_database_beyond
  \/ verify_database_iter /\ DeviceWorks

InitBeyond == InitBulk /\ memory_layout = MEMORY_LAYOUT_UNKNOWN

SpecBeyond == InitBeyond /\ [][NextBeyond]_vars

\* the select frames of the pages of the current layout
LayoutImage ==
  {SelectFrame(memory_layout, q) : q \in 0..(get_total_pages(memory_layout) - 1)}

\* the passes of the loop that the pages of the card allow
FullPasses ==
  IF op = "erase_database" THEN get_total_pages(memory_layout)
  ELSE get_total_pages(memory_layout) * BLOCKS_PER_PAGE

\* the operation stopped right after a has_card query answered 'present':
\* the select that follows the loop helper raised before sending anything
StoppedAtSelect ==
  /\ pc = "closing" /\ Len(trace) > 1
  /\ AnsweredAt(Len(trace), Present)

\* ------------------------------------------------------------------------
\* C32: write_database, verify_database and erase_database called with more
\* pages than the card has are not rejected up front: the index fault arises
\* at the select of page get_total_pages(), after every block (page) of the
\* pages 0..get_total_pages()-1 was written, compared (erased) and reported,
\* and no select frame outside the image of the layout is ever sent.
\* ------------------------------------------------------------------------
C32_BeyondLastPage ==
  (op \in {"write_database", "verify_database", "erase_database"}
     /\ pages > get_total_pages(memory_layout)) =>
    /\ i <= FullPasses /\ Len(progress) = i
    /\ pc # "in_use"
    /\ StoppedAtSelect => (fault = "IndexError" /\ i = FullPasses)
    /\ \A j \in Selects : trace[j].data \in LayoutImage

C32_Witness ==
  /\ op = "erase_database" /\ pages = 33
  /\ fault = "IndexError" /\ StoppedAtSelect
  /\ i = 32 /\ Len(progress) = 32


\* ------------------------------------------------------------------------
\* A caller that runs erase_database(pages), write_database(pages, src) and
\* read_database(pages, out) in one session on the simulated card.  The
\* trace is not emptied between the three operations: it is the history of
\* the card, from which the content of the card is read off.  The card
\* answers has_card with 00, erase_page with 04 and write_block with the
\* echo of the last byte, so on the card every step ends without a fault.
\* ------------------------------------------------------------------------
\* the block under the cursor of the simulated card once it has received
\* the bulk writes of t: the cursor is the page of the last select-page
\* frame and the number of block transfers since; the block holds the last
\* payload written there since the page was last erased, else 0xFF
SimContent(t) ==
  LET cursor(j) ==
        LET S == {m \in 1..(j - 1) : IsSelect(t[m])}
            last == IF S = {} THEN 0 ELSE CHOOSE m \in S : \A n \in S : n <= m
        IN << IF last = 0 THEN <<>> ELSE t[last].data,
              Cardinality({m \in (last + 1)..(j - 1) :
                             IsWrite(t[m], READ_BLOCK) \/ IsWrite(t[m], WRITE_BLOCK)}) >>
      here == cursor(Len(t) + 1)
      W == {w \in 1..(Len(t) - 1) :
              /\ IsWrite(t[w], WRITE_BLOCK)
              /\ cursor(w) = here
              /\ ~\E e \in (w + 1)..Len(t) :
                    IsWrite(t[e], ERASE_PAGE) /\ cursor(e)[1] = here[1]}
  IN IF W = {} THEN AllFF
     ELSE t[(CHOOSE w \in W : \A n \in W : n <= w) + 1].data

\* write_database(pages, src) after erase_database(pages) has returned
card_write_database ==
  /\ pc = "in_use" /\ op = "erase_database"
  /\ \E k \in 0..1,
        src \in {<<>>,
                 Cat(Bytes(65, BLOCK_SIZE), Bytes(66, 10)),
                 Cat(Cat(Bytes(65, BLOCK_SIZE), AllFF), Bytes(66, BLOCK_SIZE)),
                 Cat(Cat(Bytes(65, 100), AllFF), Bytes(66, 10)),
                 Bytes(67, BLOCK_SIZE * (BLOCKS_PER_PAGE + 1))} :
       /\ fd' = src
       /\ source' = src
       /\ Outcome(before_write(Run(trace, k)), "bulk")
  /\ op' = "write_database"
  /\ i' = 0 /\ out' = <<>> /\ progress' = <<>> /\ arg' = <<>> /\ ret' = <<>>
  /\ UNCHANGED pages
  /\ UNCHANGED sessionVars

\* read_database(pages, out) after write_database(pages, src) has returned;
\* source still holds the file the caller wrote
card_read_database ==
  /\ pc = "in_use" /\ op = "write_database"
  /\ \E k \in 0..1 : Outcome(before_read(Run(trace, k)), "bulk")
  /\ op' = "read_database"
  /\ i' = 0 /\ fd' = <<>> /\ out' = <<>> /\ progress' = <<>> /\ arg' = <<>> /\ ret' = <<>>
  /\ UNCHANGED <<pages, source>>
  /\ UNCHANGED sessionVars

\* one pass of the loop of read_database, the card answering read_block
\* with the block under its cursor
card_read_database_iter ==
  /\ pc = "bulk" /\ op = "read_database" /\ i < Limit
  /\ \E k \in 0..MaxCalls, hc \in HasCardResp :
       LET r1 == loop_helper(Run(trace, k), i, hc)
           r2 == IF page_boundary(i)
                 THEN select_page(r1, memory_layout, i \div BLOCKS_PER_PAGE) ELSE r1
           r3 == read_block(r2, SimContent(r2.t))
           break == r3.f = NoFault /\ is_blank(r3.v)
           written == r3.f = NoFault /\ ~break
       IN /\ Outcome(r3, IF break THEN "in_use" ELSE "bulk")
          /\ out' = IF written THEN Append(out, r3.v) ELSE out
          /\ progress' = IF written THEN Append(progress, BLen(r3.v)) ELSE progress
          /\ i' = IF written THEN i + 1 ELSE i
  /\ UNCHANGED <<op, pages, fd, source, arg, ret>>
  /\ UNCHANGED sessionVars

NextCard ==
  \/ Fresh /\ start_erase_database /\ fault' = NoFault
  \/ erase_database_iter /\ fault' = NoFault
  \/ card_write_database /\ fault' = NoFault
  \/ write_database_iter /\ fault' = NoFault
  \/ card_read_database /\ fault' = NoFault
  \/ card_read_database_iter /\ fault' = NoFault
  \/ bulk_return

SpecCard == InitBeyond /\ [][NextCard]_vars

\* block j (from 1) of the source right-padded with 0xFF to whole blocks
PaddedBlock(j) ==
  Ljust(Take(Drop(source, BLOCK_SIZE * (j - 1)), BLOCK_SIZE), BLOCK_SIZE, 255)

\* the number of blocks of the padded source
PaddedBlocks == (BLen(source) + BLOCK_SIZE - 1) \div BLOCK_SIZE

\* the first m blocks of the padded source, cut at the first of them that
\* is entirely 0xFF
CutAtBlank(m) ==
  LET F == {j \in 1..m : PaddedBlock(j) = AllFF} \cup {m + 1}
      first == CHOOSE j \in F : \A n \in F : j <= n
  IN [j \in 1..(first - 1) |-> PaddedBlock(j)]

\* read_database has returned in the session of the three operations
ReadBack == op = "read_database" /\ pc = "in_use"

\* the claim as stated: violated when src is longer than pages * 65536
\* bytes, of which write_database writes the first pages * 16 blocks only
C33_RoundTripWholeSource ==
  ReadBack => out = CutAtBlank(PaddedBlocks)

\* ------------------------------------------------------------------------
\* C33 as amended: on the simulated card, after erase_database(pages) and a
\* successful write_database(pages, src), read_database(pages) returns the
\* first pages * 16 blocks of src right-padded with 0xFF to whole blocks,
\* cut at the first of these blocks that is entirely 0xFF: the whole padded
\* src when src is no longer than pages * 65536 bytes and holds no aligned
\* all-0xFF block, and nothing from such a block on.
\* ------------------------------------------------------------------------
C33_RoundTripWithinPages ==
  ReadBack =>
    /\ fault = NoFault
    /\ out = CutAtBlank(IF PaddedBlocks < pages * BLOCKS_PER_PAGE
                        THEN PaddedBlocks ELSE pages * BLOCKS_PER_PAGE)

C33_Witness ==
  /\ ReadBack /\ pages = 1
  /\ source = Cat(Cat(Bytes(65, BLOCK_SIZE), AllFF), Bytes(66, BLOCK_SIZE))
  /\ out = <<Bytes(65, BLOCK_SIZE)>>


\* the message and the initial value of the call whose result is in ret
CrcRun ==
  IF op = "crc_plain" THEN <<arg[1], CrcZero>>
  ELSE IF op = "crc_chained" THEN <<arg[2], calculate_crc32_q(arg[1], CrcZero)>>
  ELSE <<arg[1] \o to_bytes_4_big(calculate_crc32_q(arg[1], CrcZero)), CrcZero>>

\* ------------------------------------------------------------------------
\* C35: every entry of the 256-entry lookup table is in 0..2^32-1, and from
\* an initial value in 0..2^32-1 each step of calculate_crc32_q uses a
\* table index in 0..255 and leaves the running value in 0..2^32-1, so the
\* result is a 32-bit value and no lookup is out of range.
\* ------------------------------------------------------------------------
C35_CrcStaysIn32Bits ==
  /\ DOMAIN crc32_q_lookup_table = 1..256
  /\ \A k \in 1..256 : IsWord(crc32_q_lookup_table[k])
  /\ op # "none" =>
       /\ IsWord(CrcRun[2])
       /\ \A n \in 1..Len(CrcRun[1]) :
            \A v \in {crc32_q_loop(SubSeq(CrcRun[1], 1, n - 1), CrcRun[2])} :
               /\ IsWord(v)
               /\ Xor(CrcRun[1][n], v[1] \div 256) \in 0..255
               /\ IsWord(crc32_q_step(v, CrcRun[1][n]))
       /\ ret = crc32_q_loop(CrcRun[1], CrcRun[2])
       /\ IsWord(ret)

C35_Witness ==
  /\ op = "crc_chained" /\ arg = << <<255, 255>>, <<255, 255>> >>
  /\ CrcRun[2] = <<49262, 55671>>
  /\ ret = <<37029, 17234>>


\* ------------------------------------------------------------------------
\* main.py: _transfer_garmin_impl, which erases the metadata page, calls
\* _write_database and then writes the new metadata.  `arg` names the step
\* of the transfer and `fd` holds the metadata page while it is written.
\* ------------------------------------------------------------------------
\* GarminProgrammerDevice.METADATA_PAGE: a page id that is no data page
METADATA_PAGE == 223

\* the calls of _clear_metadata, and of _write_metadata before its loop
MetadataErase ==
  <<CliCall("before_write", <<>>), CliCall("select_page", <<METADATA_PAGE>>),
    CliCall("erase_page", <<>>)>>

\* _transfer_garmin_impl up to the call of _write_database: the database
\* was downloaded or not, the user agrees or not, _clear_metadata(dev)
transfer_clear_metadata ==
  /\ pc = "in_use" /\ op = "none" /\ arg = <<>>
  /\ \E exists \in BOOLEAN, prompt \in {"y", "Y", "n"} :
       IF ~exists \/ prompt \notin {"y", "Y"}
       THEN /\ fault' = "DownloaderException" /\ pc' = "closing"
            /\ trace' = <<>> /\ arg' = <<"cancelled">>
       ELSE /\ trace' = MetadataErase
            /\ arg' = <<"_clear_metadata">>
            /\ UNCHANGED <<fault, pc>>
  /\ UNCHANGED <<op, pages, i, fd, source, out, progress>>
  /\ UNCHANGED <<need_data_card, memory_layout, log, bodyLen, ret>>

\* mutant: the metadata is written in a finally clause
transfer_write_metadata_finally ==
  /\ pc = "closing" /\ op = "_write_database"
  /\ op' = "_write_metadata" /\ arg' = <<"_write_metadata">>
  /\ fd' = Ljust(Lit(<<123, 50, 126, 49, 125>>), 65536, 255)
  /\ trace' = MetadataErase
  /\ i' = 0 /\ pc' = "bulk"
  /\ UNCHANGED <<fault, pages, source, out, progress>>
  /\ UNCHANGED <<need_data_card, memory_layout, log, bodyLen, ret>>

\* _write_database has returned to _transfer_garmin_impl:
\* _write_metadata(dev, new_metadata) up to its loop, for the metadata {2~1}
transfer_write_metadata ==
  /\ pc = "closing" /\ op = "_write_database" /\ arg = <<"done">>
  /\ op' = "_write_metadata" /\ arg' = <<"_write_metadata">>
  /\ fd' = Ljust(Lit(<<123, 50, 126, 49, 125>>), 65536, 255)
  /\ trace' = MetadataErase
  /\ i' = 0 /\ pc' = "bulk"
  /\ UNCHANGED <<fault, pages, source, out, progress>>
  /\ UNCHANGED <<need_data_card, memory_layout, log, bodyLen, ret>>

\* one pass of the loop of _write_metadata; after the last one the
\* transfer returns
transfer_write_metadata_iter ==
  /\ pc = "bulk" /\ op = "_write_metadata" /\ i < 16
  /\ \E present \in BOOLEAN :
       LET block == Take(Drop(fd, i * 4096), 4096)
           h == cli_loop_helper(trace, i, present)
       IN IF h.f # NoFault
          THEN /\ trace' = h.t /\ fault' = h.f /\ pc' = "closing"
               /\ UNCHANGED i
          ELSE /\ trace' = Append(h.t, CliCall("write_block", block))
               /\ i' = i + 1
               /\ pc' = IF i + 1 = 16 THEN "closing" ELSE pc
               /\ UNCHANGED fault
  /\ UNCHANGED <<op, pages, fd, source, out, progress, arg>>
  /\ UNCHANGED <<need_data_card, memory_layout, log, bodyLen, ret>>

NextTransfer ==
  \/ transfer_clear_metadata
  \/ arg = <<"_clear_metadata">> /\ cli_write_database_enter
  \/ cli_erase_iter
  \/ cli_write_phase
  \/ cli_write_iter
  \/ cli_verify_phase
  \/ cli_verify_iter
  \/ cli_write_database_return
  \/ transfer_write_metadata
  \/ transfer_write_metadata_iter

SpecTransfer == InitCli /\ [][NextTransfer]_vars

\* the calls of the trace with the given name
CliCalls(t, name) == {j \in 1..Len(t) : t[j].call = name}

\* the step sends a command that erases or writes a data page
DatabaseCommandSent ==
  /\ op' = "_write_database"
  /\ \E j \in (IF trace' = trace THEN {} ELSE 1..Len(trace')) :
        trace'[j].call \in {"erase_page", "write_block"}

\* the step sends a write_block of _write_metadata
MetadataBlockSent ==
  /\ op' = "_write_metadata"
  /\ CliCalls(trace', "write_block") # CliCalls(trace, "write_block")

\* ------------------------------------------------------------------------
\* C34: in _transfer_garmin_impl the metadata page is erased before the
\* first database erase or write command; the new metadata is written only
\* after the erase loop, the write loop and the verify loop of
\* _write_database ran to their ends with no fault; and once a fault has
\* occurred no call is made any more, so after a fault of the erase, write
\* or verify phase no metadata write_block is sent.
\* ------------------------------------------------------------------------
C34_MetadataAfterVerifiedDatabase ==
  [][/\ fault = NoFault
     /\ (op = "none" /\ op' = "_write_database") =>
           /\ trace = MetadataErase
           /\ CliCalls(trace', "erase_page") \cup CliCalls(trace', "write_block") = {}
     /\ DatabaseCommandSent => op = "_write_database"
     /\ (arg' = <<"write">> /\ arg # arg') =>
           /\ arg = <<"erase">>
           /\ Cardinality(CliCalls(trace, "erase_page")) = pages
     /\ (arg' = <<"verify">> /\ arg # arg') =>
           /\ arg = <<"write">>
           /\ Cardinality(CliCalls(trace, "write_block")) = pages * 16
     /\ (arg' = <<"done">> /\ arg # arg') =>
           /\ arg = <<"verify">>
           /\ Cardinality(CliCalls(trace, "read_block")) = pages * 16
           /\ \A j \in CliCalls(trace, "read_block") :
                 \A n \in {Cardinality({m \in CliCalls(trace, "read_block") : m < j})} :
                    trace[j].data = Ljust(Take(Drop(source, 4096 * n), 4096), 4096, 255)
     /\ (op' = "_write_metadata" /\ op # op') =>
           /\ op = "_write_database" /\ arg = <<"done">>
           /\ trace' = MetadataErase
     /\ MetadataBlockSent => (op = "_write_metadata" /\ fault' = NoFault)
    ]_vars

C34_Witness ==
  /\ op = "_write_metadata" /\ fault = NoFault /\ i = 16
  /\ Cardinality(CliCalls(trace, "write_block")) = 16
  /\ trace[Len(trace)].data = Bytes(255, 4096)
  /\ pages = 3 /\ Len(progress) = 48

====
